---------------------------- MODULE Spec2Model ----------------------------
(***************************************************************************)
(* PhantomStrike: a TCP client (client/functions/data_sender.py) that      *)
(* sends a payload with retries, and a threaded echo server (Server.py).   *)
(*                                                                         *)
(* Text is a sequence of Unicode code points, bytes are a sequence of      *)
(* integers 0..255.  The transport (connect, sendall, recv, close, sleep)  *)
(* is the environment: each call's outcome is chosen nondeterministically  *)
(* among a normal result and the exceptions the call can raise.            *)
(***************************************************************************)
EXTENDS Integers, Sequences, FiniteSets, TLC

\* ------------------------------------------------------------------ bounds

\* Longest payload / received chunk, in code points.
MaxLen == 2
\* Largest RETRY_ATTEMPTS value explored.
MaxRetry == 4
\* Server-side counters of reads, writes and closes saturate above this.
MaxReads == 3
\* Connections (handler threads) the server side holds.
MaxConns == 2
\* Shutdown signals delivered to the process.
MaxSignals == 2
\* Prompts the user answers in interactive mode.
MaxLines == 2

\* --------------------------------------------------------- program constants

\* wait_time = attempt * 2
BackoffFactor == 2
\* BUFFER_SIZE, the size of the server's reads (the configuration's fallback).
BUFFER_SIZE == 1024
\* client_socket.recv(1024): the size of the client's one read.
RecvSize == 1024
\* MAX_CONNECTIONS, read from the configuration (its fallback is 5): the
\* server is run configured with 1, so that MaxConns connections exceed it.
MAX_CONNECTIONS == 1

\* ------------------------------------------------------------------- state

VARIABLES
    \* ---- DataSender (client)
    api,             \* the API method called, "none" before the call
    data,            \* the payload passed to send_data / send_data_with_response
    retry_attempts,  \* self.retry_attempts
    cpc,             \* where the client call stands
    attempt,         \* send_data's loop variable
    client_socket,   \* the local client_socket: 0 is None, else a socket id
    socks,           \* socks[i]: state of the i-th socket the client created
    pending,         \* the value of the return statement whose finally still runs
    cexc,            \* the exception in flight while the finally block runs
    results,         \* what each _send_data_once call returned, in order
    cyc,             \* how each transport call of the current cycle ended
    ret,             \* what the API call returned: [kind, val]
    calls,           \* the calls made so far, in order: <<operation, argument>>
    sent,            \* the byte strings handed to sendall, in order
    received,        \* the bytes the client's last recv returned
    \* ---- Server
    server_running,  \* the global flag
    hpc,             \* hpc[h]: where handler h stands
    recvs,           \* recvs[h]: recv calls made by handler h
    chunks,          \* chunks[h]: recv calls that returned data
    sends,           \* sends[h]: sendall calls made by handler h
    closes,          \* closes[h]: close calls made by handler h
    lastread,        \* lastread[h]: how the last recv ended
    lastsend,        \* lastsend[h]: how the last sendall ended
    lastclose,       \* lastclose[h]: how the close ended
    sendok,          \* sendok[h]: some sendall of handler h succeeded
    sendfailed,      \* sendfailed[h]: some sendall of handler h raised
    message,         \* message[h]: the last decoded message
    acked,           \* acked[h]: the bytes of the last acknowledgment written
    hexc,            \* hexc[h]: the exception in flight while finally runs
    escaped,         \* escaped[h]: the exception that left handle_client
    read,            \* read[h]: the bytes the last recv of handler h returned
    \* ---- start_server (the main thread) and the signal
    mpc,             \* where start_server stands, "idle" when it is not run
    msock,           \* the connection accept returned, until its thread starts
    mexc,            \* the exception in flight while start_server's finally runs
    lsock,           \* the state of the listening socket
    server_closes,   \* close calls made on the listening socket
    sescaped,        \* the exception that left start_server
    signals,         \* shutdown signals delivered so far
    accept_failed,   \* some accept call raised
    \* ---- the network between clients and server
    wire,            \* "mock": sockets are an arbitrary transport; "server":
                     \* client sockets are connected to this server;
                     \* "script": sockets behave as script says
    script,          \* how connect, sendall, recv and close end on a
                     \* scripted transport
    backlog,         \* connections established and not yet accepted, in order
    cside,           \* cside[c]: the client's end of connection c
    sside,           \* sside[c]: the server's end of connection c
    inbox,           \* inbox[c]: bytes written by the client, not yet read
    outbox,          \* outbox[c]: bytes written by the server, not yet read
    peer,            \* the connection behind the DataSender's client_socket
    rpc,             \* rpc[c]: where the plain-socket client of connection c stands
    got,             \* got[c]: the bytes that client's recv returned
    \* ---- PhantomStrikeClient (the application)
    mode,            \* "automated" or "interactive", "none" before the run
    apc,             \* where the run stands, "off" when the application is not run
    stdin,           \* what input() will get, prompt by prompt
    consumed,        \* what input() has got so far
    steps,           \* the calls made so far, in order: <<operation, argument>>
    aend             \* how the run ended: "returned", "quit", "interrupt" or the
                     \* exception that left it

cvars == <<api, data, retry_attempts, cpc, attempt, client_socket, socks,
           pending, cexc, results, cyc, ret, calls, sent, received>>
svars == <<server_running, hpc, recvs, chunks, sends, closes, lastread,
           lastsend, lastclose, sendok, sendfailed, message, acked, hexc,
           escaped, read>>
lvars == <<mpc, msock, mexc, lsock, server_closes, sescaped, signals,
           accept_failed>>
nvars == <<wire, script, backlog, cside, sside, inbox, outbox, peer, rpc, got>>
avars == <<mode, apc, stdin, consumed, steps, aend>>
vars == <<api, data, retry_attempts, cpc, attempt, client_socket, socks,
          pending, cexc, results, cyc, ret, calls, sent, received,
          server_running, hpc, recvs, chunks, sends, closes, lastread,
          lastsend, lastclose, sendok, sendfailed, message, acked, hexc,
          escaped, read,
          mpc, msock, mexc, lsock, server_closes, sescaped, signals,
          accept_failed,
          wire, script, backlog, cside, sside, inbox, outbox, peer, rpc, got,
          mode, apc, stdin, consumed, steps, aend>>

\* ----------------------------------------------------------- text and bytes

\* The code points the model draws text from: space, 'h', e-acute, and the
\* lone surrogate U+DC80 (what input() yields for an undecodable byte).
Chars == {32, 104, 233, 56448}

RECURSIVE SeqsUpTo(_, _)
SeqsUpTo(S, n) ==
    IF n = 0 THEN {<<>>}
    ELSE LET shorter == SeqsUpTo(S, n - 1)
         IN  shorter \cup {Append(s, x) : s \in {t \in shorter : Len(t) = n - 1}, x \in S}

Texts == SeqsUpTo(Chars, MaxLen)

\* str.isspace() for one code point.
IsWhitespace(c) == c \in {9, 10, 11, 12, 13, 28, 29, 30, 31, 32, 133, 160}

\* str.strip(): leading and trailing whitespace removed.
RECURSIVE LStrip(_)
LStrip(s) == IF s # <<>> /\ IsWhitespace(Head(s)) THEN LStrip(Tail(s)) ELSE s

RECURSIVE RStrip(_)
RStrip(s) ==
    IF s # <<>> /\ IsWhitespace(s[Len(s)]) THEN RStrip(SubSeq(s, 1, Len(s) - 1)) ELSE s

Strip(s) == RStrip(LStrip(s))

\* A surrogate code point: not encodable, never decoded.
IsSurrogate(c) == c >= 55296 /\ c <= 57343

\* The UTF-8 bytes of one code point.
EncodeChar(c) ==
    IF c < 128 THEN <<c>>
    ELSE IF c < 2048 THEN <<192 + (c \div 64), 128 + (c % 64)>>
    ELSE IF c < 65536
    THEN <<224 + (c \div 4096), 128 + ((c \div 64) % 64), 128 + (c % 64)>>
    ELSE <<240 + (c \div 262144), 128 + ((c \div 4096) % 64),
           128 + ((c \div 64) % 64), 128 + (c % 64)>>

\* The bytes of the code points s[lo..hi], by halves (a payload of a
\* thousand code points is encoded in ten levels).
RECURSIVE EncodeRange(_, _, _)
EncodeRange(s, lo, hi) ==
    IF lo > hi THEN <<>>
    ELSE IF lo = hi THEN EncodeChar(s[lo])
    ELSE EncodeRange(s, lo, (lo + hi) \div 2) \o EncodeRange(s, (lo + hi) \div 2 + 1, hi)

\* str.encode('utf-8'): [ok, bytes]; ok is FALSE where Python raises
\* UnicodeEncodeError (a surrogate in the text).
Encode(s) ==
    IF \E i \in 1 .. Len(s) : IsSurrogate(s[i])
    THEN [ok |-> FALSE, bytes |-> <<>>]
    ELSE [ok |-> TRUE, bytes |-> EncodeRange(s, 1, Len(s))]

IsContinuation(x) == x >= 128 /\ x <= 191

\* The length of the sequence a lead byte opens, 0 for a byte that opens none
\* (a continuation byte, 0xC0, 0xC1, 0xF5 and above).
SeqLen(x) ==
    IF x < 128 THEN 1
    ELSE IF x >= 194 /\ x <= 223 THEN 2
    ELSE IF x >= 224 /\ x <= 239 THEN 3
    ELSE IF x >= 240 /\ x <= 244 THEN 4
    ELSE 0

\* The code point of a two-, three- and four-byte sequence.
CodePoint2(b1, b2) == (b1 - 192) * 64 + (b2 - 128)
CodePoint3(b1, b2, b3) == (b1 - 224) * 4096 + (b2 - 128) * 64 + (b3 - 128)
CodePoint4(b1, b2, b3, b4) ==
    (b1 - 240) * 262144 + (b2 - 128) * 4096 + (b3 - 128) * 64 + (b4 - 128)

\* The code point of the sequence that starts at b[i].
CodePointAt(b, i) ==
    IF SeqLen(b[i]) = 1 THEN b[i]
    ELSE IF SeqLen(b[i]) = 2 THEN CodePoint2(b[i], b[i + 1])
    ELSE IF SeqLen(b[i]) = 3 THEN CodePoint3(b[i], b[i + 1], b[i + 2])
    ELSE CodePoint4(b[i], b[i + 1], b[i + 2], b[i + 3])

\* Byte i of b is where the decoder accepts it: a lead byte whose sequence
\* is complete, shortest-form, no surrogate and at most U+10FFFF, or a
\* continuation byte inside the sequence of a lead byte before it.
WellFormedAt(b, i) ==
    IF IsContinuation(b[i])
    THEN \E k \in 1 .. 3 :
            /\ i - k >= 1
            /\ SeqLen(b[i - k]) > k
            /\ \A j \in (i - k + 1) .. i : IsContinuation(b[j])
    ELSE /\ SeqLen(b[i]) >= 1
         /\ i + SeqLen(b[i]) - 1 <= Len(b)
         /\ \A j \in (i + 1) .. (i + SeqLen(b[i]) - 1) : IsContinuation(b[j])
         /\ SeqLen(b[i]) = 3 => /\ CodePointAt(b, i) >= 2048
                                /\ ~IsSurrogate(CodePointAt(b, i))
         /\ SeqLen(b[i]) = 4 => /\ CodePointAt(b, i) >= 65536
                                /\ CodePointAt(b, i) <= 1114111

\* A lead byte inside b[lo+1..hi], near the middle: where a well-formed
\* range of two sequences or more is cut in two.
SplitAt(b, lo, hi) ==
    LET mid == (lo + hi) \div 2 + 1
        from == IF mid - 3 > lo THEN mid - 3 ELSE lo + 1
        to == IF mid + 3 < hi THEN mid + 3 ELSE hi
    IN  CHOOSE m \in from .. to : ~IsContinuation(b[m])

\* The text of the well-formed bytes b[lo..hi], by halves.
RECURSIVE DecodeRange(_, _, _)
DecodeRange(b, lo, hi) ==
    IF lo > hi THEN <<>>
    ELSE IF lo + SeqLen(b[lo]) - 1 = hi THEN <<CodePointAt(b, lo)>>
    ELSE DecodeRange(b, lo, SplitAt(b, lo, hi) - 1)
            \o DecodeRange(b, SplitAt(b, lo, hi), hi)

\* bytes.decode('utf-8'): [ok, text]; ok is FALSE where Python raises
\* UnicodeDecodeError.
Decode(b) ==
    IF \A i \in 1 .. Len(b) : WellFormedAt(b, i)
    THEN [ok |-> TRUE, text |-> DecodeRange(b, 1, Len(b))]
    ELSE [ok |-> FALSE, text |-> <<>>]

\* ------------------------------------------------------------- exceptions

\* The exception classes the transport raises and the handlers name.
\* socket.error is OSError; socket.timeout derives from it, the two
\* Unicode errors (through ValueError) from Exception.  SystemExit, which
\* sys.exit raises, derives from BaseException and not from Exception.
ExcParent(cls) ==
    CASE cls = "socket.timeout"     -> "socket.error"
      [] cls = "socket.error"       -> "Exception"
      [] cls = "UnicodeDecodeError" -> "Exception"
      [] cls = "UnicodeEncodeError" -> "Exception"
      [] cls = "EOFError"           -> "Exception"
      [] OTHER                      -> "object"

RECURSIVE IsInstance(_, _)
IsInstance(exc, cls) ==
    IF exc = cls THEN TRUE
    ELSE IF exc = "object" THEN FALSE
    ELSE IsInstance(ExcParent(exc), cls)

\* The index of the first except clause that handles exc, 0 if none does.
RECURSIVE FirstClause(_, _, _)
FirstClause(exc, clauses, i) ==
    IF i > Len(clauses) THEN 0
    ELSE IF IsInstance(exc, clauses[i]) THEN i
    ELSE FirstClause(exc, clauses, i + 1)

Caught(exc, clauses) == FirstClause(exc, clauses, 1) # 0

\* ------------------------------------------------------- the client: inputs

\* RETRY_ATTEMPTS is int(config...): any integer, here -1..MaxRetry.
RetryValues == (-1) .. MaxRetry

\* What the transport can raise from connect, sendall, recv and close.
ConnectRaises == {"socket.timeout", "socket.error", "Exception"}
SendRaises == {"socket.timeout", "socket.error", "Exception"}
RecvRaises == {"socket.timeout", "socket.error", "Exception"}
CloseRaises == {"socket.error", "Exception"}

\* What recv(1024) can return to the client: text, a lone invalid byte, a
\* truncated two-byte sequence, or b"" (the peer closed).
Responses == {Encode(<<104>>).bytes, Encode(<<233, 104>>).bytes, <<255>>, <<195>>, <<>>}

RecvOutcomes ==
    [exc : {"none"}, bytes : Responses] \cup [exc : RecvRaises, bytes : {<<>>}]

\* A Python value a call returns: True, False, None or a str.
Ret(k) == [kind |-> k, val |-> <<>>]
RetStr(t) == [kind |-> "str", val |-> t]
NoValue == Ret("none")

NoCycle ==
    [connect |-> "none", encode |-> "none", send |-> "none", recv |-> "none",
     close |-> "none"]

\* The behaviours of a transport that ends every connect, sendall, recv and
\* close the same way, as a mock socket with fixed side effects does.
Scripts ==
    [connect : {"ok"} \cup ConnectRaises, send : {"ok"} \cup SendRaises,
     recv : RecvOutcomes, close : {"ok"} \cup CloseRaises]

\* The transport is not scripted.
NoScript ==
    [connect |-> "ok", send |-> "ok", recv |-> [exc |-> "none", bytes |-> <<>>],
     close |-> "ok"]

\* ------------------------------------------------------------ the network

Conns == 1 .. MaxConns

\* The first n bytes of b, and what is left after them.
Take(b, n) == SubSeq(b, 1, IF Len(b) < n THEN Len(b) ELSE n)
Drop(b, n) == SubSeq(b, (IF Len(b) < n THEN Len(b) ELSE n) + 1, Len(b))

\* The connections no client has opened yet, and the one a connect takes.
FreeConns == {c \in Conns : cside[c] = "none"}
NextConn == CHOOSE c \in FreeConns : \A d \in FreeConns : c <= d

\* server.listen(MAX_CONNECTIONS): the backlog takes another connection.
BacklogHasRoom == Len(backlog) < MAX_CONNECTIONS

\* A connect to the server succeeds while the server listens: the connection
\* waits in the backlog for an accept.
Connects(c) ==
    /\ backlog' = Append(backlog, c)
    /\ cside' = [cside EXCEPT ![c] = "open"]

\* The process has ended: start_server has returned or raised, the script
\* ends, and the daemon handler threads end with it (every handler step
\* is a step of a live process).
Exited == mpc = "done"

\* The server's end of connection c is closed, by its handler or with the
\* process.
ServerEndClosed(c) == sside[c] = "closed" \/ Exited

\* How client_socket.connect can end for the DataSender.
ConnectOutcomes ==
    IF wire = "mock" THEN {"ok"} \cup ConnectRaises
    ELSE IF wire = "script" THEN {script.connect}
    ELSE (IF lsock = "listening" /\ BacklogHasRoom /\ FreeConns # {}
          THEN {"ok"} ELSE {})
            \cup ConnectRaises

\* How a client's recv(1024) ends on connection c: what the server wrote (at
\* most RecvSize bytes of it), b"" once the server's end is closed, the
\* timeout of settimeout() while nothing has arrived.
WireRecv(c) ==
    IF outbox[c] # <<>>
    THEN {[exc |-> "none", bytes |-> Take(outbox[c], RecvSize)]}
    ELSE IF ServerEndClosed(c) THEN {[exc |-> "none", bytes |-> <<>>]}
    ELSE {[exc |-> "socket.timeout", bytes |-> <<>>]}

\* How client_socket.recv(1024) can end for the DataSender.
RecvOutcomesNow ==
    IF wire = "mock" THEN RecvOutcomes
    ELSE IF wire = "script" THEN {script.recv}
    ELSE WireRecv(peer)

\* How client_socket.sendall can end for the DataSender: on the wire it
\* raises only once the server's end is closed.
SendOutcomesNow ==
    IF wire = "mock" THEN {"ok"} \cup SendRaises
    ELSE IF wire = "script" THEN {script.send}
    ELSE IF ServerEndClosed(peer) THEN {"ok", "socket.error"}
    ELSE {"ok"}

\* How client_socket.close can end for the DataSender: on the wire it
\* does not raise.
CloseOutcomesNow ==
    IF wire = "mock" THEN {"ok"} \cup CloseRaises
    ELSE IF wire = "script" THEN {script.close}
    ELSE {"ok"}

\* ----------------------------------------------- the client: DataSender

\* The except clauses, in source order.
create_connection_clauses == <<"socket.timeout", "socket.error", "Exception">>
send_data_once_clauses == <<"socket.error", "Exception">>
\* Mutant: the acknowledgment read handles the timeout alone.
send_data_once_ack_clauses_timeout_only == <<"socket.timeout">>
send_data_once_ack_clauses == <<"socket.timeout", "Exception">>
send_data_once_close_clauses == <<"Exception">>
\* Mutant: send_data_with_response names socket.error alone.
send_data_with_response_clauses_socket_only == <<"socket.error">>
send_data_with_response_clauses == <<"socket.error", "Exception">>
\* Mutant: the close of send_data_with_response handles socket.error alone.
send_data_with_response_close_clauses_socket_only == <<"socket.error">>
send_data_with_response_close_clauses == <<"Exception">>

\* Mutant: the payload check without the strip.
IsEmptyPayloadNoStrip(d) == d = <<>>

\* if not data or not data.strip()
IsEmptyPayload(d) == d = <<>> \/ Strip(d) = <<>>

\* Mutant: the first attempt is made whatever RETRY_ATTEMPTS is.
InRangeOrFirst(a) == a = 1 \/ (1 <= a /\ a < retry_attempts + 1)

\* range(1, self.retry_attempts + 1) holds a
InRange(a) == 1 <= a /\ a < retry_attempts + 1

\* Mutant: the last attempt too is followed by a sleep.
MoreAttemptsInclusive(a) == a <= retry_attempts

\* if attempt < self.retry_attempts
MoreAttempts(a) == a < retry_attempts

\* Mutant: the backoff the source's comment names, 2 ** attempt.
WaitTimeExponential(a) == 2 ^ a

\* wait_time = attempt * 2
WaitTime(a) == a * BackoffFactor

\* Mutant: the result of the cycle is ignored, the loop never returns early.
OnceSucceededIgnored(r) == FALSE

\* if self._send_data_once(data): return True
OnceSucceeded(r) == r = "True"

\* Mutant: the socket is closed on the success path only.
OnceHasSocketOnSuccess(s) == s # 0 /\ pending.kind = "True"

\* finally: if client_socket:  (in _send_data_once)
OnceHasSocket(s) == s # 0

\* Mutant: send_data_with_response leaves its socket to the caller.
ResponseHasSocketNever(s) == FALSE

\* finally: if client_socket:  (in send_data_with_response)
ResponseHasSocket(s) == s # 0

\* How a recv of the client ended, for cyc.
RecvKind(out) ==
    IF out.exc = "socket.timeout" THEN "timeout"
    ELSE IF out.exc # "none" THEN "error"
    ELSE IF out.bytes = <<>> THEN "empty"
    ELSE IF Decode(out.bytes).ok THEN "data"
    ELSE "undecodable"

\* The exception a recv with `if response: response.decode('utf-8')` raises,
\* "none" if it completes.
RecvDecodeExc(out) ==
    IF out.exc # "none" THEN out.exc
    ELSE IF out.bytes # <<>> /\ ~Decode(out.bytes).ok THEN "UnicodeDecodeError"
    ELSE "none"

\* Mutant: one socket object is kept and connected again by every cycle.
NewSocketKept == IF socks = <<>> THEN 1 ELSE Len(socks)

\* client_socket = socket.socket(...): every _create_connection call makes a
\* new socket object.
NewSocket == Len(socks) + 1

\* The for statement of send_data moves past attempt a: the next iteration
\* calls _send_data_once, an exhausted range falls to `return False`.
ForNext(a, log) ==
    IF InRange(a + 1)
    THEN /\ attempt' = a + 1
         /\ cpc' = "once_connect"
         /\ calls' = Append(log, <<"_send_data_once", a + 1>>)
         /\ ret' = ret
    ELSE /\ attempt' = a
         /\ cpc' = "done"
         /\ calls' = log
         /\ ret' = Ret("False")

\* _send_data_once returned r: to its caller when it was called directly,
\* else to the loop body of send_data.
OnceReturns(r, log) ==
    /\ results' = Append(results, r)
    /\ IF api = "_send_data_once"
       THEN /\ cpc' = "done"
            /\ ret' = Ret(r)
            /\ calls' = log
            /\ UNCHANGED attempt
       ELSE IF OnceSucceeded(r)
       THEN /\ cpc' = "done"
            /\ ret' = Ret("True")
            /\ calls' = log
            /\ UNCHANGED attempt
       ELSE IF MoreAttempts(attempt)
       THEN /\ cpc' = "sleep"
            /\ calls' = log
            /\ UNCHANGED <<attempt, ret>>
       ELSE ForNext(attempt, log)

\* An exception left _send_data_once: no frame of send_data catches it.
ApiRaises(exc, log) ==
    /\ cpc' = "done"
    /\ ret' = Ret("raised")
    /\ calls' = log
    /\ UNCHANGED <<attempt, results>>

\* send_data: the payload check and the first iteration of the loop.
send_data ==
    /\ cpc = "idle"
    /\ api' = "send_data"
    /\ IF IsEmptyPayload(data)
       THEN /\ cpc' = "done"
            /\ ret' = Ret("False")
            /\ UNCHANGED <<attempt, calls>>
       ELSE ForNext(0, calls)
    /\ UNCHANGED <<data, retry_attempts, client_socket, socks, pending, cexc,
                   results, cyc, sent, received, svars, lvars, nvars>>
    /\ UNCHANGED avars

\* _send_data_once called directly, as its tests call it: client_socket = None.
send_data_once ==
    /\ cpc = "idle"
    /\ api = "none"
    /\ api' = "_send_data_once"
    /\ cpc' = "once_connect"
    /\ UNCHANGED <<data, retry_attempts, attempt, client_socket, socks, pending,
                   cexc, results, cyc, ret, calls, sent, received, svars, lvars,
                   nvars>>
    /\ UNCHANGED avars

\* The caller of _send_data_once makes its next call on the same DataSender.
next_call ==
    /\ cpc = "done"
    /\ api = "_send_data_once"
    /\ cpc' = "idle"
    /\ UNCHANGED <<api, data, retry_attempts, attempt, client_socket, socks,
                   pending, cexc, results, cyc, ret, calls, sent, received,
                   svars, lvars, nvars>>
    /\ UNCHANGED avars

\* _send_data_once: _create_connection and `if not client_socket: return False`.
send_data_once_connect ==
    /\ cpc = "once_connect"
    /\ \E out \in ConnectOutcomes :
         LET id == NewSocket
         IN  /\ socks' = [i \in 1 .. (IF id > Len(socks) THEN id ELSE Len(socks)) |->
                              IF i # id THEN socks[i]
                              ELSE IF out = "ok" THEN "connected" ELSE "unconnected"]
             /\ calls' = Append(calls, <<"connect", id>>)
             /\ cyc' = [NoCycle EXCEPT !.connect = IF out = "ok" THEN "ok" ELSE "fail"]
             /\ IF out = "ok" /\ wire = "server"
                THEN peer' = NextConn /\ Connects(NextConn)
                ELSE UNCHANGED <<peer, backlog, cside>>
             /\ IF out = "ok"
                THEN /\ client_socket' = id
                     /\ cpc' = "once_sendall"
                     /\ UNCHANGED <<pending, cexc>>
                ELSE /\ client_socket' = 0
                     /\ cpc' = "once_finally"
                     /\ IF Caught(out, create_connection_clauses)
                           \/ Caught(out, send_data_once_clauses)
                        THEN pending' = Ret("False") /\ cexc' = "none"
                        ELSE pending' = NoValue /\ cexc' = out
    /\ UNCHANGED <<data, retry_attempts, api, attempt, results, ret, sent, received, svars, lvars,
                   wire, script, sside, inbox, outbox, rpc, got>>
    /\ UNCHANGED avars

\* Mutant: send_data hands the trimmed payload to the cycle.
OncePayloadStripped == Strip(data)

\* self._send_data_once(data): the cycle gets send_data's argument as it is.
OncePayload == data

\* _send_data_once: encode, and sendall when the payload encodes.
send_data_once_sendall ==
    /\ cpc = "once_sendall"
    /\ \E out \in (IF Encode(OncePayload).ok THEN SendOutcomesNow
                   ELSE {"UnicodeEncodeError"}) :
         /\ IF Encode(OncePayload).ok
            THEN /\ sent' = Append(sent, Encode(OncePayload).bytes)
                 /\ calls' = Append(calls, <<"sendall", client_socket>>)
                 /\ cyc' = [cyc EXCEPT !.encode = "ok",
                                       !.send = IF out = "ok" THEN "ok" ELSE "fail"]
            ELSE /\ cyc' = [cyc EXCEPT !.encode = "fail"]
                 /\ UNCHANGED <<sent, calls>>
         /\ inbox' = IF out = "ok" /\ wire = "server"
                     THEN [inbox EXCEPT ![peer] = @ \o Encode(OncePayload).bytes]
                     ELSE inbox
         /\ IF out = "ok"
            THEN cpc' = "once_recv" /\ UNCHANGED <<pending, cexc>>
            ELSE IF Caught(out, send_data_once_clauses)
            THEN cpc' = "once_finally" /\ pending' = Ret("False") /\ cexc' = "none"
            ELSE cpc' = "once_finally" /\ pending' = NoValue /\ cexc' = out
    /\ UNCHANGED <<data, retry_attempts, api, attempt, client_socket, socks,
                   results, ret, received, svars, lvars,
                   wire, script, backlog, cside, sside, outbox, peer, rpc, got>>
    /\ UNCHANGED avars

\* _send_data_once: the acknowledgment read in its own try, then `return True`.
send_data_once_recv ==
    /\ cpc = "once_recv"
    /\ \E out \in RecvOutcomesNow :
         LET exc == RecvDecodeExc(out)
         IN  /\ calls' = Append(calls, <<"recv", client_socket>>)
             /\ received' = out.bytes
             /\ outbox' = IF wire = "server"
                          THEN [outbox EXCEPT ![peer] = Drop(@, Len(out.bytes))]
                          ELSE outbox
             /\ cyc' = [cyc EXCEPT !.recv = RecvKind(out)]
             /\ cpc' = "once_finally"
             /\ IF exc = "none" \/ Caught(exc, send_data_once_ack_clauses)
                THEN pending' = Ret("True") /\ cexc' = "none"
                ELSE IF Caught(exc, send_data_once_clauses)
                THEN pending' = Ret("False") /\ cexc' = "none"
                ELSE pending' = NoValue /\ cexc' = exc
    /\ UNCHANGED <<data, retry_attempts, api, attempt, client_socket, socks,
                   results, ret, sent, svars, lvars,
                   wire, script, backlog, cside, sside, inbox, peer, rpc, got>>
    /\ UNCHANGED avars

\* _send_data_once: the finally block (close, when there is a socket), then
\* the return to send_data.
send_data_once_finally ==
    /\ cpc = "once_finally"
    /\ \E out \in (IF OnceHasSocket(client_socket)
                   THEN CloseOutcomesNow ELSE {"skipped"}) :
         LET log == IF out = "skipped" THEN calls
                    ELSE Append(calls, <<"close", client_socket>>)
         IN  /\ socks' = IF out = "skipped" THEN socks
                         ELSE [socks EXCEPT ![client_socket] =
                                  IF out = "ok" THEN "closed" ELSE "close_failed"]
             /\ cyc' = IF out = "skipped" THEN cyc
                       ELSE [cyc EXCEPT !.close = IF out = "ok" THEN "ok" ELSE "fail"]
             /\ IF out \notin {"ok", "skipped"}
                   /\ ~Caught(out, send_data_once_close_clauses)
                THEN ApiRaises(out, log)
                ELSE IF cexc # "none"
                THEN ApiRaises(cexc, log)
                ELSE OnceReturns(pending.kind, log)
             /\ cside' = IF out = "ok" /\ wire = "server"
                         THEN [cside EXCEPT ![peer] = "closed"]
                         ELSE cside
    /\ client_socket' = 0
    /\ peer' = 0
    /\ pending' = NoValue
    /\ cexc' = "none"
    /\ UNCHANGED <<data, retry_attempts, api, sent, received, svars, lvars,
                   wire, script, backlog, sside, inbox, outbox, rpc, got>>
    /\ UNCHANGED avars

\* send_data: the backoff sleep, then the next iteration of the loop.
send_data_sleep ==
    /\ cpc = "sleep"
    /\ ForNext(attempt, Append(calls, <<"sleep", WaitTime(attempt)>>))
    /\ UNCHANGED <<data, retry_attempts, api, client_socket, socks, pending,
                   cexc, results, cyc, sent, received, svars, lvars,
                   nvars>>
    /\ UNCHANGED avars

\* send_data_with_response: _create_connection and
\* `if not client_socket: return None`.  There is no payload check.
send_data_with_response ==
    /\ cpc = "idle"
    /\ api' = "send_data_with_response"
    /\ \E out \in ConnectOutcomes :
         LET id == NewSocket
         IN  /\ socks' = [i \in 1 .. (IF id > Len(socks) THEN id ELSE Len(socks)) |->
                              IF i # id THEN socks[i]
                              ELSE IF out = "ok" THEN "connected" ELSE "unconnected"]
             /\ calls' = Append(calls, <<"connect", id>>)
             /\ cyc' = [NoCycle EXCEPT !.connect = IF out = "ok" THEN "ok" ELSE "fail"]
             /\ IF out = "ok" /\ wire = "server"
                THEN peer' = NextConn /\ Connects(NextConn)
                ELSE UNCHANGED <<peer, backlog, cside>>
             /\ IF out = "ok"
                THEN /\ client_socket' = id
                     /\ cpc' = "response_sendall"
                     /\ UNCHANGED <<pending, cexc>>
                ELSE /\ client_socket' = 0
                     /\ cpc' = "response_finally"
                     /\ IF Caught(out, create_connection_clauses)
                           \/ Caught(out, send_data_with_response_clauses)
                        THEN pending' = Ret("None") /\ cexc' = "none"
                        ELSE pending' = NoValue /\ cexc' = out
    /\ UNCHANGED <<data, retry_attempts, attempt, results, ret, sent, received, svars, lvars,
                   wire, script, sside, inbox, outbox, rpc, got>>
    /\ UNCHANGED avars

\* send_data_with_response: encode, and sendall when the payload encodes.
send_data_with_response_sendall ==
    /\ cpc = "response_sendall"
    /\ \E out \in (IF Encode(data).ok THEN SendOutcomesNow
                   ELSE {"UnicodeEncodeError"}) :
         /\ IF Encode(data).ok
            THEN /\ sent' = Append(sent, Encode(data).bytes)
                 /\ calls' = Append(calls, <<"sendall", client_socket>>)
                 /\ cyc' = [cyc EXCEPT !.encode = "ok",
                                       !.send = IF out = "ok" THEN "ok" ELSE "fail"]
            ELSE /\ cyc' = [cyc EXCEPT !.encode = "fail"]
                 /\ UNCHANGED <<sent, calls>>
         /\ inbox' = IF out = "ok" /\ wire = "server"
                     THEN [inbox EXCEPT ![peer] = @ \o Encode(data).bytes]
                     ELSE inbox
         /\ IF out = "ok"
            THEN cpc' = "response_recv" /\ UNCHANGED <<pending, cexc>>
            ELSE IF Caught(out, send_data_with_response_clauses)
            THEN cpc' = "response_finally" /\ pending' = Ret("None") /\ cexc' = "none"
            ELSE cpc' = "response_finally" /\ pending' = NoValue /\ cexc' = out
    /\ UNCHANGED <<data, retry_attempts, api, attempt, client_socket, socks,
                   results, ret, received, svars, lvars,
                   wire, script, backlog, cside, sside, outbox, peer, rpc, got>>
    /\ UNCHANGED avars

\* send_data_with_response: recv, `if response:` and decode, under the
\* function's one try.
send_data_with_response_recv ==
    /\ cpc = "response_recv"
    /\ \E out \in RecvOutcomesNow :
         LET exc == RecvDecodeExc(out)
         IN  /\ calls' = Append(calls, <<"recv", client_socket>>)
             /\ received' = out.bytes
             /\ outbox' = IF wire = "server"
                          THEN [outbox EXCEPT ![peer] = Drop(@, Len(out.bytes))]
                          ELSE outbox
             /\ cyc' = [cyc EXCEPT !.recv = RecvKind(out)]
             /\ cpc' = "response_finally"
             /\ IF exc = "none"
                THEN /\ pending' = IF out.bytes # <<>>
                                   THEN RetStr(Decode(out.bytes).text)
                                   ELSE Ret("None")
                     /\ cexc' = "none"
                ELSE IF Caught(exc, send_data_with_response_clauses)
                THEN pending' = Ret("None") /\ cexc' = "none"
                ELSE pending' = NoValue /\ cexc' = exc
    /\ UNCHANGED <<data, retry_attempts, api, attempt, client_socket, socks,
                   results, ret, sent, svars, lvars,
                   wire, script, backlog, cside, sside, inbox, peer, rpc, got>>
    /\ UNCHANGED avars

\* send_data_with_response: the finally block (close, when there is a
\* socket), then the return.
send_data_with_response_finally ==
    /\ cpc = "response_finally"
    /\ \E out \in (IF ResponseHasSocket(client_socket)
                   THEN CloseOutcomesNow ELSE {"skipped"}) :
         /\ socks' = IF out = "skipped" THEN socks
                     ELSE [socks EXCEPT ![client_socket] =
                              IF out = "ok" THEN "closed" ELSE "close_failed"]
         /\ calls' = IF out = "skipped" THEN calls
                     ELSE Append(calls, <<"close", client_socket>>)
         /\ cyc' = IF out = "skipped" THEN cyc
                   ELSE [cyc EXCEPT !.close = IF out = "ok" THEN "ok" ELSE "fail"]
         /\ ret' = IF out \notin {"ok", "skipped"}
                      /\ ~Caught(out, send_data_with_response_close_clauses)
                   THEN Ret("raised")
                   ELSE IF cexc # "none" THEN Ret("raised")
                   ELSE pending
         /\ cside' = IF out = "ok" /\ wire = "server"
                     THEN [cside EXCEPT ![peer] = "closed"]
                     ELSE cside
    /\ cpc' = "done"
    /\ client_socket' = 0
    /\ peer' = 0
    /\ pending' = NoValue
    /\ cexc' = "none"
    /\ UNCHANGED <<data, retry_attempts, api, attempt, results, sent, received,
                   svars, lvars, wire, script, backlog, sside, inbox, outbox, rpc, got>>
    /\ UNCHANGED avars

SenderNext ==
    \/ send_data
    \/ send_data_once_connect
    \/ send_data_once_sendall
    \/ send_data_once_recv
    \/ send_data_once_finally
    \/ send_data_sleep
    \/ send_data_with_response
    \/ send_data_with_response_sendall
    \/ send_data_with_response_recv
    \/ send_data_with_response_finally

\* ------------------------------------------------------ the server: inputs

\* "CONNECTION_TEST" and "GET_SERVER_INFO", the payloads of test_connection
\* and get_server_info.
ConnectionTest == <<67, 79, 78, 78, 69, 67, 84, 73, 79, 78, 95, 84, 69, 83, 84>>
GetServerInfo == <<71, 69, 84, 95, 83, 69, 82, 86, 69, 82, 95, 73, 78, 70, 79>>

\* What recv(BUFFER_SIZE) can return to a handler: encoded text, a lone
\* invalid byte, a truncated two-byte sequence, or b"" (the peer closed).
Chunks ==
    {Encode(<<104>>).bytes, Encode(<<233, 32>>).bytes, Encode(ConnectionTest).bytes,
     Encode(GetServerInfo).bytes, <<255>>, <<195>>, <<>>}

HandlerRecvRaises == {"socket.error", "Exception"}
HandlerSendRaises == {"socket.error", "Exception"}
HandlerCloseRaises == {"socket.error", "Exception"}

HandlerRecvOutcomes ==
    [exc : {"none"}, bytes : Chunks] \cup [exc : HandlerRecvRaises, bytes : {<<>>}]

\* How client_socket.recv(BUFFER_SIZE) can end for handler h.  On the wire
\* the socket has no timeout: the call waits for bytes (at most BUFFER_SIZE
\* of them are returned), and once the client's end is closed it returns
\* b"" or raises (a reset).
HandlerRecvOutcomesOn(h) ==
    IF wire = "mock" THEN HandlerRecvOutcomes
    ELSE IF inbox[h] # <<>>
    THEN {[exc |-> "none", bytes |-> Take(inbox[h], BUFFER_SIZE)]}
    ELSE IF cside[h] = "closed"
    THEN {[exc |-> "none", bytes |-> <<>>], [exc |-> "socket.error", bytes |-> <<>>]}
    ELSE {}

\* How client_socket.sendall can end for handler h: on the wire it raises
\* only once the client's end is closed.
HandlerSendOutcomesOn(h) ==
    IF wire = "mock" THEN {"ok"} \cup HandlerSendRaises
    ELSE IF cside[h] = "closed" THEN {"ok", "socket.error"}
    ELSE {"ok"}

\* How client_socket.close can end for handler h: on the wire it does not
\* raise.
HandlerCloseOutcomesOn(h) ==
    IF wire = "mock" THEN {"ok"} \cup HandlerCloseRaises ELSE {"ok"}

\* A counter of calls: exact up to MaxReads, MaxReads + 1 stands for more.
Inc(n) == IF n <= MaxReads THEN n + 1 ELSE n

\* "Server received: "
AckPrefix ==
    <<83, 101, 114, 118, 101, 114, 32, 114, 101, 99, 101, 105, 118, 101, 100, 58, 32>>

\* Mutant: the acknowledgment is the message alone.
AckMessageBare(m) == m

\* ack_message = f"Server received: {message}"
AckMessage(m) == AckPrefix \o m

\* ---------------------------------------------------- the server: Server.py

\* Mutant: the handler names socket.error alone.
handle_client_clauses_socket_only == <<"socket.error">>
\* Mutant: the acknowledgment's try names socket.error alone.
handle_client_ack_clauses_socket_only == <<"socket.error">>
\* Mutant: the close's try names socket.error alone.
handle_client_close_clauses_socket_only == <<"socket.error">>

\* The except clauses of handle_client, in source order.
handle_client_clauses == <<"socket.error", "Exception">>
handle_client_ack_clauses == <<"Exception">>
handle_client_close_clauses == <<"Exception">>

\* Mutant: the signal handler returns instead of calling sys.exit.
SignalReturns == FALSE

\* sys.exit(0) at the end of signal_handler.
SignalExits == TRUE

\* Mutant: the signal handler leaves the flag as it is.
FlagAfterSignalKept == server_running

\* server_running = False
FlagAfterSignal == FALSE

\* Where the main thread stands after the signal handler has run in it:
\* SystemExit unwinds start_server's try into its finally block, and out of
\* the finally block when it is raised there, before the close.  No except
\* clause of start_server names it.
MainAfterSignal ==
    IF ~SignalExits \/ mpc \in {"idle", "done"} THEN mpc
    ELSE IF mpc = "finally" THEN "done"
    ELSE "finally"

\* signal_handler: server_running = False; sys.exit(0).  It runs once
\* start_server has registered it (or is called directly where start_server
\* is not run), while the process lives.
signal_handler ==
    /\ signals < MaxSignals
    /\ mpc # "start"
    /\ ~Exited
    /\ signals' = signals + 1
    /\ server_running' = FlagAfterSignal
    /\ mpc' = MainAfterSignal
    /\ IF MainAfterSignal = mpc
       THEN UNCHANGED <<mexc, sescaped>>
       ELSE IF mpc = "finally"
       THEN mexc' = "none" /\ sescaped' = "SystemExit"
       ELSE mexc' = "SystemExit" /\ sescaped' = sescaped
    /\ UNCHANGED <<hpc, recvs, chunks, sends, closes, lastread, lastsend,
                   lastclose, sendok, sendfailed, message, acked, hexc, escaped,
                   read>>
    /\ UNCHANGED <<msock, lsock, server_closes, accept_failed>>
    /\ UNCHANGED <<cvars, nvars>>
    /\ UNCHANGED avars

\* handle_client is entered with an accepted connection.
handle_client(h) ==
    /\ hpc[h] = "called"
    /\ ~Exited
    /\ hpc' = [hpc EXCEPT ![h] = "loop"]
    /\ UNCHANGED <<server_running, recvs, chunks, sends, closes, lastread,
                   lastsend, lastclose, sendok, sendfailed, message, acked,
                   hexc, escaped, read>>
    /\ UNCHANGED <<cvars, lvars, nvars>>
    /\ UNCHANGED avars

\* Mutant: the handler's loop does not look at the flag.
HandlerGoesOnAlways == TRUE

\* The condition of handle_client's while statement.
HandlerGoesOn == server_running

\* while server_running:
handle_client_loop(h) ==
    /\ hpc[h] = "loop"
    /\ ~Exited
    /\ hpc' = [hpc EXCEPT ![h] = IF HandlerGoesOn THEN "recv" ELSE "close"]
    /\ UNCHANGED <<server_running, recvs, chunks, sends, closes, lastread,
                   lastsend, lastclose, sendok, sendfailed, message, acked,
                   hexc, escaped, read>>
    /\ UNCHANGED <<cvars, lvars, nvars>>
    /\ UNCHANGED avars

\* How a recv of a handler ended, as the transport saw it.
HandlerRecvKind(out) ==
    IF out.exc # "none" THEN "error"
    ELSE IF out.bytes = <<>> THEN "empty"
    ELSE IF Decode(out.bytes).ok THEN "data"
    ELSE "undecodable"

\* Mutant: the zero-byte read is not told from data.
NotDataNever(b) == FALSE

\* if not data:
NotData(b) == b = <<>>

\* Mutant: undecodable bytes are replaced (errors='replace'), U+FFFD standing
\* for the chunk.
HandlerDecodeReplace(b) ==
    IF Decode(b).ok THEN Decode(b) ELSE [ok |-> TRUE, text |-> <<65533>>]

\* message = data.decode('utf-8')
HandlerDecode(b) == Decode(b)

\* Mutant: the decoded chunk is set aside and the loop reads on.
AfterChunkReadOn == "loop"

\* After message = data.decode('utf-8') the loop body goes on to the
\* acknowledgment.
AfterChunk == "send"

\* data = client_socket.recv(BUFFER_SIZE); if not data: break;
\* message = data.decode('utf-8')
handle_client_recv(h) ==
    /\ hpc[h] = "recv"
    /\ ~Exited
    /\ \E out \in HandlerRecvOutcomesOn(h) :
         LET kind == HandlerRecvKind(out)
             decoded == HandlerDecode(out.bytes)
             exc == IF out.exc # "none" THEN out.exc
                    ELSE IF NotData(out.bytes) THEN "none"
                    ELSE IF ~decoded.ok THEN "UnicodeDecodeError"
                    ELSE "none"
             break == out.exc = "none" /\ NotData(out.bytes)
         IN  /\ recvs' = [recvs EXCEPT ![h] = Inc(@)]
             /\ read' = [read EXCEPT ![h] = IF out.exc = "none" THEN out.bytes ELSE @]
             /\ inbox' = IF wire = "server"
                         THEN [inbox EXCEPT ![h] = Drop(@, Len(out.bytes))]
                         ELSE inbox
             /\ lastread' = [lastread EXCEPT ![h] = kind]
             /\ chunks' = [chunks EXCEPT ![h] =
                              IF kind \in {"data", "undecodable"} THEN Inc(@) ELSE @]
             /\ message' = [message EXCEPT ![h] =
                               IF exc = "none" /\ ~break THEN decoded.text ELSE @]
             /\ hpc' = [hpc EXCEPT ![h] =
                           IF exc = "none" /\ ~break THEN AfterChunk ELSE "close"]
             /\ hexc' = [hexc EXCEPT ![h] =
                            IF exc = "none" \/ Caught(exc, handle_client_clauses)
                            THEN "none" ELSE exc]
    /\ UNCHANGED <<server_running, sends, closes, lastsend, lastclose, sendok,
                   sendfailed, acked, escaped>>
    /\ UNCHANGED <<cvars, lvars>>
    /\ UNCHANGED <<wire, script, backlog, cside, sside, outbox, peer, rpc, got>>
    /\ UNCHANGED avars

\* Mutant: the message is one variable shared by all handlers.
HandlerMessageShared(h) == message[1]

\* message, a local variable of each call of handle_client.
HandlerMessage(h) == message[h]

\* client_socket.sendall(ack_message.encode('utf-8')) in its own try.
handle_client_sendall(h) ==
    /\ hpc[h] = "send"
    /\ ~Exited
    /\ \E out \in HandlerSendOutcomesOn(h) :
         /\ sends' = [sends EXCEPT ![h] = Inc(@)]
         /\ acked' = [acked EXCEPT ![h] = Encode(AckMessage(HandlerMessage(h))).bytes]
         /\ outbox' = IF out = "ok" /\ wire = "server"
                      THEN [outbox EXCEPT ![h] =
                               @ \o Encode(AckMessage(HandlerMessage(h))).bytes]
                      ELSE outbox
         /\ lastsend' = [lastsend EXCEPT ![h] = IF out = "ok" THEN "ok" ELSE "fail"]
         /\ sendok' = [sendok EXCEPT ![h] = @ \/ out = "ok"]
         /\ sendfailed' = [sendfailed EXCEPT ![h] = @ \/ out # "ok"]
         /\ IF out = "ok" \/ Caught(out, handle_client_ack_clauses)
            THEN /\ hpc' = [hpc EXCEPT ![h] = "loop"]
                 /\ hexc' = hexc
            ELSE /\ hpc' = [hpc EXCEPT ![h] = "close"]
                 /\ hexc' = [hexc EXCEPT ![h] =
                                IF Caught(out, handle_client_clauses)
                                THEN "none" ELSE out]
    /\ UNCHANGED <<server_running, recvs, chunks, closes, lastread, lastclose,
                   message, escaped, read>>
    /\ UNCHANGED <<cvars, lvars>>
    /\ UNCHANGED <<wire, script, backlog, cside, sside, inbox, peer, rpc, got>>
    /\ UNCHANGED avars

\* Mutant: client_socket is one variable shared by all handlers.
HandlerSocketShared(h) == 1

\* client_socket, the argument of each call of handle_client: the connection
\* accept returned for it.
HandlerSocket(h) == h

\* Mutant: the close is made inside the loop, which then goes on.
AfterCloseLoop == "loop"

\* The finally block is the end of handle_client: it returns.
AfterClose == "done"

\* finally: client_socket.close() in its own try; then handle_client returns.
handle_client_close(h) ==
    /\ hpc[h] = "close"
    /\ ~Exited
    /\ \E out \in HandlerCloseOutcomesOn(h) :
         /\ closes' = [closes EXCEPT ![h] = Inc(@)]
         /\ lastclose' = [lastclose EXCEPT ![h] = IF out = "ok" THEN "ok" ELSE "fail"]
         /\ escaped' = [escaped EXCEPT ![h] =
                           IF out # "ok" /\ ~Caught(out, handle_client_close_clauses)
                           THEN out ELSE hexc[h]]
         /\ sside' = IF out = "ok" /\ wire = "server"
                     THEN [sside EXCEPT ![HandlerSocket(h)] = "closed"]
                     ELSE sside
    /\ hpc' = [hpc EXCEPT ![h] = AfterClose]
    /\ hexc' = [hexc EXCEPT ![h] = "none"]
    /\ UNCHANGED <<server_running, recvs, chunks, sends, lastread, lastsend,
                   sendok, sendfailed, message, acked, read>>
    /\ UNCHANGED <<cvars, lvars>>
    /\ UNCHANGED <<wire, script, backlog, cside, inbox, outbox, peer, rpc, got>>
    /\ UNCHANGED avars

\* One step of the thread that runs handle_client on connection h.
HandlerStep(h) ==
    \/ handle_client(h)
    \/ handle_client_loop(h)
    \/ handle_client_recv(h)
    \/ handle_client_sendall(h)
    \/ handle_client_close(h)

\* --------------------------------------------- the server: start_server

\* What bind/listen, accept, Thread.start and the listener's close can raise.
ListenRaises == {"socket.error"}
AcceptRaises == {"socket.error", "Exception"}
SpawnRaises == {"Exception"}
ListenerCloseRaises == {"socket.error", "Exception"}

\* The except clauses of start_server: of the function's try, of the try
\* around accept and the thread start, of the try around the close.
start_server_clauses == <<"Exception">>
start_server_accept_clauses == <<"socket.error">>
start_server_close_clauses == <<"Exception">>

\* Mutant: an accept error is logged and the loop goes on.
AfterAcceptErrorContinue == "loop"

\* except socket.error: ... break
AfterAcceptError == "finally"

\* An exception raised in start_server's try: where the main thread goes and
\* what stays in flight.  inner tells a raise inside the loop's own try.
MainRaises(exc, inner) ==
    IF inner /\ Caught(exc, start_server_accept_clauses)
    THEN mpc' = AfterAcceptError /\ mexc' = "none"
    ELSE /\ mpc' = "finally"
         /\ mexc' = IF Caught(exc, start_server_clauses) THEN "none" ELSE exc

\* start_server: the signal handlers are registered and the server socket is
\* created; the try is entered.
start_server ==
    /\ mpc = "start"
    /\ mpc' = "setup"
    /\ lsock' = "open"
    /\ UNCHANGED <<msock, mexc, server_closes, sescaped, signals, accept_failed>>
    /\ UNCHANGED <<cvars, svars, nvars>>
    /\ UNCHANGED avars

\* server.setsockopt(...); server.bind((HOST, PORT)); server.listen(...)
start_server_listen ==
    /\ mpc = "setup"
    /\ \E out \in {"ok"} \cup ListenRaises :
         IF out = "ok"
         THEN mpc' = "loop" /\ lsock' = "listening" /\ mexc' = mexc
         ELSE MainRaises(out, FALSE) /\ lsock' = lsock
    /\ UNCHANGED <<msock, server_closes, sescaped, signals, accept_failed>>
    /\ UNCHANGED <<cvars, svars, nvars>>
    /\ UNCHANGED avars

\* Mutant: the main thread joins the handler threads before it goes on.
ListenerWaitsForHandlers == \E h \in Conns : hpc[h] \notin {"idle", "done"}

\* client_handler.start() is the last the main thread does with a handler
\* thread: it keeps no reference and joins none.
ListenerWaits == FALSE

\* while server_running:
start_server_loop ==
    /\ mpc = "loop"
    /\ ~ListenerWaits
    /\ mpc' = IF server_running THEN "accept" ELSE "finally"
    /\ UNCHANGED <<msock, mexc, lsock, server_closes, sescaped, signals,
                   accept_failed>>
    /\ UNCHANGED <<cvars, svars, nvars>>
    /\ UNCHANGED avars

\* client_socket, client_address = server.accept(): the oldest connection of
\* the backlog, or an error.
start_server_accept ==
    /\ mpc = "accept"
    /\ \/ /\ backlog # <<>>
          /\ msock' = Head(backlog)
          /\ backlog' = Tail(backlog)
          /\ sside' = [sside EXCEPT ![Head(backlog)] = "open"]
          /\ mpc' = "spawn"
          /\ UNCHANGED <<mexc, accept_failed>>
       \/ /\ \E exc \in AcceptRaises : MainRaises(exc, TRUE)
          /\ accept_failed' = TRUE
          /\ UNCHANGED <<msock, backlog, sside>>
    /\ UNCHANGED <<lsock, server_closes, sescaped, signals>>
    /\ UNCHANGED <<wire, script, cside, inbox, outbox, peer, rpc, got>>
    /\ UNCHANGED <<cvars, svars>>
    /\ UNCHANGED avars

\* client_handler = threading.Thread(target=handle_client, ...);
\* client_handler.start()
start_server_spawn ==
    /\ mpc = "spawn"
    /\ \E out \in {"ok"} \cup SpawnRaises :
         IF out = "ok"
         THEN /\ hpc' = [hpc EXCEPT ![msock] = "called"]
              /\ mpc' = "loop"
              /\ mexc' = mexc
         ELSE MainRaises(out, TRUE) /\ hpc' = hpc
    /\ msock' = 0
    /\ UNCHANGED <<lsock, server_closes, sescaped, signals, accept_failed>>
    /\ UNCHANGED <<server_running, recvs, chunks, sends, closes, lastread,
                   lastsend, lastclose, sendok, sendfailed, message, acked,
                   hexc, escaped, read>>
    /\ UNCHANGED <<cvars, nvars>>
    /\ UNCHANGED avars

\* finally: server.close() in its own try; then start_server returns, or
\* the exception in flight leaves it.
start_server_finally ==
    /\ mpc = "finally"
    /\ \E out \in {"ok"} \cup ListenerCloseRaises :
         /\ lsock' = IF out = "ok" THEN "closed" ELSE "close_failed"
         /\ sescaped' = IF out # "ok" /\ ~Caught(out, start_server_close_clauses)
                         THEN out ELSE mexc
    /\ server_closes' = server_closes + 1
    /\ mpc' = "done"
    /\ mexc' = "none"
    /\ UNCHANGED <<msock, signals, accept_failed>>
    /\ UNCHANGED <<cvars, svars, nvars>>
    /\ UNCHANGED avars

\* One step of the main thread.
ListenerStep ==
    \/ start_server
    \/ start_server_listen
    \/ start_server_loop
    \/ start_server_accept
    \/ start_server_spawn
    \/ start_server_finally

\* ------------------------------------------- plain-socket clients (tests)

\* The clients of the integration tests: connect, sendall, recv, close on a
\* plain socket.  They are followed while the server process lives.

\* f"Message from client {i}": a message that names its client ("m1", "m2").
RawMessage(c) == <<109, 48 + c>>

\* client_socket.connect(...) while the server listens.
raw_connect(c) ==
    /\ rpc[c] = "idle"
    /\ ~Exited
    /\ wire = "server"
    /\ lsock = "listening"
    /\ BacklogHasRoom
    /\ cside[c] = "none"
    /\ Connects(c)
    /\ rpc' = [rpc EXCEPT ![c] = "connected"]
    /\ UNCHANGED <<wire, script, sside, inbox, outbox, peer, got>>
    /\ UNCHANGED <<cvars, svars, lvars>>
    /\ UNCHANGED avars

\* client.sendall(message.encode('utf-8'))
raw_sendall(c) ==
    /\ rpc[c] = "connected"
    /\ ~Exited
    /\ inbox' = [inbox EXCEPT ![c] = @ \o Encode(RawMessage(c)).bytes]
    /\ rpc' = [rpc EXCEPT ![c] = "sent"]
    /\ UNCHANGED <<wire, script, backlog, cside, sside, outbox, peer, got>>
    /\ UNCHANGED <<cvars, svars, lvars>>
    /\ UNCHANGED avars

\* response = client.recv(1024)
raw_recv(c) ==
    /\ rpc[c] = "sent"
    /\ ~Exited
    /\ \E out \in WireRecv(c) :
         /\ got' = [got EXCEPT ![c] = out.bytes]
         /\ outbox' = [outbox EXCEPT ![c] = Drop(@, Len(out.bytes))]
         /\ rpc' = [rpc EXCEPT ![c] = IF out.exc = "none" THEN "got" ELSE "timeout"]
    /\ UNCHANGED <<wire, script, backlog, cside, sside, inbox, peer>>
    /\ UNCHANGED <<cvars, svars, lvars>>
    /\ UNCHANGED avars

\* finally: client.close()
raw_close(c) ==
    /\ rpc[c] \in {"got", "timeout"}
    /\ ~Exited
    /\ cside' = [cside EXCEPT ![c] = "closed"]
    /\ rpc' = [rpc EXCEPT ![c] = "closed"]
    /\ UNCHANGED <<wire, script, backlog, sside, inbox, outbox, peer, got>>
    /\ UNCHANGED <<cvars, svars, lvars>>
    /\ UNCHANGED avars

\* One step of the client of connection c.
RawStep(c) ==
    \/ raw_connect(c)
    \/ raw_sendall(c)
    \/ raw_recv(c)
    \/ raw_close(c)

\* ------------------------------- the application: PhantomStrikeClient

\* self.data_sender.send_data is the boundary of this part: a call returns
\* True or False, or raises; in interactive mode Ctrl-C can interrupt it.

\* "PhantomStrike Client started"
Greeting ==
    <<80, 104, 97, 110, 116, 111, 109, 83, 116, 114, 105, 107, 101, 32, 67,
      108, 105, 101, 110, 116, 32, 115, 116, 97, 114, 116, 101, 100>>

\* "PhantomStrike Client automated sequence completed"
Completion ==
    <<80, 104, 97, 110, 116, 111, 109, 83, 116, 114, 105, 107, 101, 32, 67,
      108, 105, 101, 110, 116, 32, 97, 117, 116, 111, 109, 97, 116, 101, 100,
      32, 115, 101, 113, 117, 101, 110, 99, 101, 32, 99, 111, 109, 112, 108,
      101, 116, 101, 100>>

\* "System Info: "
SystemInfoPrefix == <<83, 121, 115, 116, 101, 109, 32, 73, 110, 102, 111, 58, 32>>

\* "quit" and "info"
QuitText == <<113, 117, 105, 116>>
InfoText == <<105, 110, 102, 111>>

\* str(system_info): "{p}" stands for the dictionary of the platform data,
\* "{e}" for the one collect_system_info returns when a query raised.
InfoDict(k) == IF k = "info" THEN <<123, 112, 125>> ELSE <<123, 101, 125>>

\* str.lower() for one code point (ASCII and Latin-1 capitals).
LowerChar(c) ==
    IF (65 <= c /\ c <= 90) \/ (192 <= c /\ c <= 222 /\ c # 215) THEN c + 32 ELSE c

\* str.lower()
Lower(s) == [i \in 1 .. Len(s) |-> LowerChar(s[i])]

\* What the user types at one prompt: "quit", "QUIT", " Quit ", "info",
\* " Info", "", " ", "h", " hi ", "quit h".
Lines ==
    {QuitText, <<81, 85, 73, 84>>, <<32, 81, 117, 105, 116, 32>>, InfoText,
     <<32, 73, 110, 102, 111>>, <<>>, <<32>>, <<104>>, <<32, 104, 105, 32>>,
     <<113, 117, 105, 116, 32, 104>>}

\* What input() does at one prompt: it returns a line, Ctrl-C raises
\* KeyboardInterrupt in it, it raises some other exception once ("error"),
\* or standard input is at its end ("eof") and this call and every later
\* one raise EOFError.
InputEvents ==
    [kind : {"line"}, text : Lines]
        \cup [kind : {"interrupt", "error", "eof"}, text : {<<>>}]

\* The exception input() raises for an event, "none" for a line.
InputRaises(ev) ==
    CASE ev.kind = "interrupt" -> "KeyboardInterrupt"
      [] ev.kind = "error"     -> "Exception"
      [] ev.kind = "eof"       -> "EOFError"
      [] OTHER                 -> "none"

\* How self.data_sender.send_data(...) can end for the application.
AppSendOutcomes(m) ==
    {"True", "False", "Exception"}
        \cup (IF m = "interactive" THEN {"KeyboardInterrupt"} ELSE {})

\* How collect_system_info can end: the platform data, or the error
\* dictionary of its except clause.
CollectOutcomes == {"info", "error"}

\* Mutant: send_test_message names socket.error alone.
send_test_message_clauses_socket_only == <<"socket.error">>

\* Mutant: the loop of run_interactive_mode handles KeyboardInterrupt alone.
run_interactive_mode_clauses_interrupt_only == <<"KeyboardInterrupt">>

\* The except clauses of send_test_message, send_system_info and the loop of
\* run_interactive_mode, in source order.
send_test_message_clauses == <<"Exception">>
send_system_info_clauses == <<"Exception">>
run_interactive_mode_clauses == <<"KeyboardInterrupt", "Exception">>

\* The exception that leaves a function whose try has the given clauses when
\* send_data ended with out; "none" when the function returns.
Leaves(out, clauses) ==
    IF out \in {"True", "False"} \/ Caught(out, clauses) THEN "none" ELSE out

\* send_test_message(message): one send_data call with the message, which
\* ends with out.
SendTestMessage(msg, out, log) ==
    log \o <<<<"send_test_message", msg>>, <<"send_data", msg>>, <<out, <<>>>>>>

\* send_system_info(): collect_system_info, then one send_data call with
\* "System Info: " and the dictionary, which ends with out.
SendSystemInfo(k, out, log) ==
    log \o <<<<"send_system_info", <<>>>>,
             <<"send_data", SystemInfoPrefix \o InfoDict(k)>>, <<out, <<>>>>>>

\* An exception left run_automated_mode, or it goes on to the next step.
AutomatedGoes(exc, next) ==
    IF exc = "none"
    THEN apc' = next /\ aend' = aend
    ELSE apc' = "done" /\ aend' = exc

\* run_automated_mode: the greeting.
run_automated_mode ==
    /\ apc = "idle"
    /\ mode' = "automated"
    /\ \E out \in AppSendOutcomes("automated") :
         /\ steps' = SendTestMessage(Greeting, out, steps)
         /\ AutomatedGoes(Leaves(out, send_test_message_clauses), "sleep_1")
    /\ UNCHANGED <<stdin, consumed>>
    /\ UNCHANGED <<cvars, svars, lvars, nvars>>

\* run_automated_mode: time.sleep(1), both times.
run_automated_mode_sleep ==
    /\ apc \in {"sleep_1", "sleep_2"}
    /\ steps' = Append(steps, <<"sleep", <<1>>>>)
    /\ apc' = IF apc = "sleep_1" THEN "info" ELSE "completion"
    /\ UNCHANGED <<mode, stdin, consumed, aend>>
    /\ UNCHANGED <<cvars, svars, lvars, nvars>>

\* run_automated_mode: self.send_system_info()
run_automated_mode_info ==
    /\ apc = "info"
    /\ \E out \in AppSendOutcomes("automated"), k \in CollectOutcomes :
         /\ steps' = SendSystemInfo(k, out, steps)
         /\ AutomatedGoes(Leaves(out, send_system_info_clauses), "sleep_2")
    /\ UNCHANGED <<mode, stdin, consumed>>
    /\ UNCHANGED <<cvars, svars, lvars, nvars>>

\* run_automated_mode: the completion message, then the return.
run_automated_mode_completion ==
    /\ apc = "completion"
    /\ \E out \in AppSendOutcomes("automated") :
         LET exc == Leaves(out, send_test_message_clauses)
         IN  /\ steps' = SendTestMessage(Completion, out, steps)
             /\ aend' = IF exc = "none" THEN "returned" ELSE exc
    /\ apc' = "done"
    /\ UNCHANGED <<mode, stdin, consumed>>
    /\ UNCHANGED <<cvars, svars, lvars, nvars>>

\* run_interactive_mode is entered: the banner, then the loop.
run_interactive_mode ==
    /\ apc = "idle"
    /\ mode' = "interactive"
    /\ apc' = "input"
    /\ UNCHANGED <<stdin, consumed, steps, aend>>
    /\ UNCHANGED <<cvars, svars, lvars, nvars>>

\* Mutant: the quit command is compared as typed.
IsQuitAsTyped(t) == t = QuitText

\* if user_input.lower() == 'quit':
IsQuit(t) == Lower(t) = QuitText

\* elif user_input.lower() == 'info':
IsInfo(t) == Lower(t) = InfoText

\* The loop of run_interactive_mode after the command of one line ended
\* with exc: KeyboardInterrupt breaks, any other Exception is logged and the
\* loop goes on.
InteractiveGoes(exc) ==
    IF exc = "none" THEN apc' = "input" /\ aend' = aend
    ELSE IF FirstClause(exc, run_interactive_mode_clauses, 1) = 1
    THEN apc' = "done" /\ aend' = "interrupt"
    ELSE IF Caught(exc, run_interactive_mode_clauses)
    THEN apc' = "input" /\ aend' = aend
    ELSE apc' = "done" /\ aend' = exc

\* One iteration of the loop of run_interactive_mode: input().strip() and
\* the command.  With nothing more typed, input() waits; at the end of
\* standard input it raises at once, and does so again at the next call.
run_interactive_mode_input ==
    /\ apc = "input"
    /\ stdin # <<>>
    /\ stdin' = IF Head(stdin).kind = "eof" THEN stdin ELSE Tail(stdin)
    /\ consumed' = IF consumed # <<>> /\ consumed[Len(consumed)].kind = "eof"
                   THEN consumed
                   ELSE Append(consumed, Head(stdin))
    /\ LET ev == Head(stdin)
           user_input == Strip(ev.text)
       IN  IF InputRaises(ev) # "none"
           THEN InteractiveGoes(InputRaises(ev)) /\ steps' = steps
           ELSE IF IsQuit(user_input)
           THEN apc' = "done" /\ aend' = "quit" /\ steps' = steps
           ELSE IF IsInfo(user_input)
           THEN \E out \in AppSendOutcomes("interactive"), k \in CollectOutcomes :
                   /\ steps' = SendSystemInfo(k, out, steps)
                   /\ InteractiveGoes(Leaves(out, send_system_info_clauses))
           ELSE IF user_input # <<>>
           THEN \E out \in AppSendOutcomes("interactive") :
                   /\ steps' = SendTestMessage(user_input, out, steps)
                   /\ InteractiveGoes(Leaves(out, send_test_message_clauses))
           ELSE InteractiveGoes("none") /\ steps' = steps
    /\ UNCHANGED mode
    /\ UNCHANGED <<cvars, svars, lvars, nvars>>

ClientNext ==
    \/ run_automated_mode
    \/ run_automated_mode_sleep
    \/ run_automated_mode_info
    \/ run_automated_mode_completion
    \/ run_interactive_mode
    \/ run_interactive_mode_input

\* --------------------------------------------------------- specifications

\* The connection handle_client is called on directly.
Direct == {1}

InitSender ==
    /\ api = "none"
    /\ data \in Texts
    /\ retry_attempts \in RetryValues
    /\ cpc = "idle"
    /\ attempt = 0
    /\ client_socket = 0
    /\ socks = <<>>
    /\ pending = NoValue
    /\ cexc = "none"
    /\ results = <<>>
    /\ cyc = NoCycle
    /\ ret = NoValue
    /\ calls = <<>>
    /\ sent = <<>>
    /\ received = <<>>

InitServer ==
    /\ server_running = TRUE
    /\ hpc = [h \in Conns |-> IF h \in Direct THEN "called" ELSE "idle"]
    /\ recvs = [h \in Conns |-> 0]
    /\ chunks = [h \in Conns |-> 0]
    /\ sends = [h \in Conns |-> 0]
    /\ closes = [h \in Conns |-> 0]
    /\ lastread = [h \in Conns |-> "none"]
    /\ lastsend = [h \in Conns |-> "none"]
    /\ lastclose = [h \in Conns |-> "none"]
    /\ sendok = [h \in Conns |-> FALSE]
    /\ sendfailed = [h \in Conns |-> FALSE]
    /\ message = [h \in Conns |-> <<>>]
    /\ acked = [h \in Conns |-> <<>>]
    /\ hexc = [h \in Conns |-> "none"]
    /\ escaped = [h \in Conns |-> "none"]
    /\ read = [h \in Conns |-> <<>>]

\* The server side at rest, for the specifications of the client alone.
IdleServer ==
    /\ server_running = TRUE
    /\ hpc = [h \in Conns |-> "idle"]
    /\ recvs = [h \in Conns |-> 0]
    /\ chunks = [h \in Conns |-> 0]
    /\ sends = [h \in Conns |-> 0]
    /\ closes = [h \in Conns |-> 0]
    /\ lastread = [h \in Conns |-> "none"]
    /\ lastsend = [h \in Conns |-> "none"]
    /\ lastclose = [h \in Conns |-> "none"]
    /\ sendok = [h \in Conns |-> FALSE]
    /\ sendfailed = [h \in Conns |-> FALSE]
    /\ message = [h \in Conns |-> <<>>]
    /\ acked = [h \in Conns |-> <<>>]
    /\ hexc = [h \in Conns |-> "none"]
    /\ escaped = [h \in Conns |-> "none"]
    /\ read = [h \in Conns |-> <<>>]

\* The client before any call, with one fixed payload, for the
\* specifications of the server alone.
IdleSender ==
    /\ api = "none"
    /\ data = <<>>
    /\ retry_attempts = MaxRetry
    /\ cpc = "idle"
    /\ attempt = 0
    /\ client_socket = 0
    /\ socks = <<>>
    /\ pending = NoValue
    /\ cexc = "none"
    /\ results = <<>>
    /\ cyc = NoCycle
    /\ ret = NoValue
    /\ calls = <<>>
    /\ sent = <<>>
    /\ received = <<>>

\* start_server is not run (handle_client and the DataSender are exercised
\* on their own), or it has just been called.
Listener(pc) ==
    /\ mpc = pc
    /\ msock = 0
    /\ mexc = "none"
    /\ lsock = "none"
    /\ server_closes = 0
    /\ sescaped = "none"
    /\ signals = 0
    /\ accept_failed = FALSE

\* No connection exists yet; w tells what sockets are.
Net(w) ==
    /\ wire = w
    /\ script = NoScript
    /\ backlog = <<>>
    /\ cside = [c \in Conns |-> "none"]
    /\ sside = [c \in Conns |-> "none"]
    /\ inbox = [c \in Conns |-> <<>>]
    /\ outbox = [c \in Conns |-> <<>>]
    /\ peer = 0
    /\ rpc = [c \in Conns |-> "idle"]
    /\ got = [c \in Conns |-> <<>>]

\* Payloads whose acknowledgment just fits the client's read, and just does
\* not: 1007 and 1008 times 'h'.
LongPayloads ==
    {[i \in 1 .. (RecvSize - Len(AckPrefix)) |-> 104],
     [i \in 1 .. (RecvSize - Len(AckPrefix) + 1) |-> 104]}

\* The client of the round trip: one call, of one or two attempts.
RoundTripSender ==
    /\ api = "none"
    /\ data \in Texts \cup LongPayloads
    /\ retry_attempts \in 1 .. 2
    /\ cpc = "idle"
    /\ attempt = 0
    /\ client_socket = 0
    /\ socks = <<>>
    /\ pending = NoValue
    /\ cexc = "none"
    /\ results = <<>>
    /\ cyc = NoCycle
    /\ ret = NoValue
    /\ calls = <<>>
    /\ sent = <<>>
    /\ received = <<>>

\* One payload and one DataSender, for two calls on a scripted transport.
PairSender ==
    /\ api = "none"
    /\ data \in Texts
    /\ retry_attempts = 1
    /\ cpc = "idle"
    /\ attempt = 0
    /\ client_socket = 0
    /\ socks = <<>>
    /\ pending = NoValue
    /\ cexc = "none"
    /\ results = <<>>
    /\ cyc = NoCycle
    /\ ret = NoValue
    /\ calls = <<>>
    /\ sent = <<>>
    /\ received = <<>>

\* No connection exists yet; every socket will behave as one script says.
NetScripted ==
    /\ wire = "script"
    /\ script \in Scripts
    /\ backlog = <<>>
    /\ cside = [c \in Conns |-> "none"]
    /\ sside = [c \in Conns |-> "none"]
    /\ inbox = [c \in Conns |-> <<>>]
    /\ outbox = [c \in Conns |-> <<>>]
    /\ peer = 0
    /\ rpc = [c \in Conns |-> "idle"]
    /\ got = [c \in Conns |-> <<>>]

\* The application is not run.
IdleApp ==
    /\ mode = "none"
    /\ apc = "off"
    /\ stdin = <<>>
    /\ consumed = <<>>
    /\ steps = <<>>
    /\ aend = "none"

\* The application before run_automated_mode or run_interactive_mode is
\* called, with what the user will type.
InitApp ==
    /\ mode = "none"
    /\ apc = "idle"
    /\ stdin \in SeqsUpTo(InputEvents, MaxLines)
    /\ consumed = <<>>
    /\ steps = <<>>
    /\ aend = "none"

HandlerNext ==
    \/ signal_handler
    \/ \E h \in Direct : HandlerStep(h)

ServerNext ==
    \/ signal_handler
    \/ ListenerStep
    \/ \E h \in Conns : HandlerStep(h)
    \/ \E c \in Conns : RawStep(c)

RoundTripNext ==
    \/ SenderNext
    \/ ListenerStep
    \/ \E h \in Conns : HandlerStep(h)

\* _send_data_once, then send_data_with_response with the same payload.
PairNext ==
    \/ send_data_once
    \/ send_data_once_connect
    \/ send_data_once_sendall
    \/ send_data_once_recv
    \/ send_data_once_finally
    \/ next_call
    \/ (api = "_send_data_once" /\ send_data_with_response)
    \/ send_data_with_response_sendall
    \/ send_data_with_response_recv
    \/ send_data_with_response_finally

Init == RoundTripSender /\ IdleServer /\ Listener("start") /\ Net("server") /\ InitApp

Next == SenderNext \/ ServerNext \/ ClientNext

SenderInit == InitSender /\ IdleServer /\ Listener("idle") /\ Net("mock") /\ IdleApp

HandlerInit == IdleSender /\ InitServer /\ Listener("idle") /\ Net("mock") /\ IdleApp

ServerInit == IdleSender /\ IdleServer /\ Listener("start") /\ Net("server") /\ IdleApp

RoundTripInit == RoundTripSender /\ IdleServer /\ Listener("start") /\ Net("server") /\ IdleApp

PairInit == PairSender /\ IdleServer /\ Listener("idle") /\ NetScripted /\ IdleApp

ClientInit == IdleSender /\ IdleServer /\ Listener("idle") /\ Net("mock") /\ InitApp

\* One API call of a DataSender against an arbitrary transport.
SenderSpec == SenderInit /\ [][SenderNext]_vars

\* handle_client called on one connection, a signal arriving at any time.
HandlerSpec == HandlerInit /\ [][HandlerNext]_vars

\* The handler's thread keeps running and its calls return.
FairHandlerSpec ==
    HandlerInit /\ [][HandlerNext]_vars /\ \A h \in Direct : WF_vars(HandlerStep(h))

\* The server as the script runs it, plain-socket clients connecting to it,
\* a signal arriving at any time.
ServerSpec == ServerInit /\ [][ServerNext]_vars

\* The handler threads and the clients keep running; the main thread may
\* wait in accept for ever.
FairServerSpec ==
    /\ ServerInit /\ [][ServerNext]_vars
    /\ \A h \in Conns : WF_vars(HandlerStep(h))
    /\ \A c \in Conns : WF_vars(RawStep(c))

\* One API call of a DataSender whose thread keeps running: every connect,
\* sendall, recv and close returns or raises (settimeout bounds them) and
\* every time.sleep ends.
FairSenderSpec == SenderInit /\ [][SenderNext]_vars /\ WF_vars(SenderNext)

\* One API call of a DataSender against the server.
RoundTripSpec == RoundTripInit /\ [][RoundTripNext]_vars

\* _send_data_once and send_data_with_response called one after the other
\* with one payload on a transport that behaves the same way for both.
PairSpec == PairInit /\ [][PairNext]_vars

\* One run of the application, the DataSender behind send_data being any.
ClientSpec == ClientInit /\ [][ClientNext]_vars

Spec == Init /\ [][Next]_vars

\* ------------------------------------------------------------ the claims

\* The payload is empty or holds spaces only.
Blank(d) == \A i \in 1 .. Len(d) : d[i] = 32

\* The send cycles and backoff sleeps of the call, in the order made.
RetrySchedule == SelectSeq(calls, LAMBDA e : e[1] \in {"_send_data_once", "sleep"})

\* Cycles 1..n, cycle k followed by a sleep of 2k seconds for each k < n.
ExpectedSchedule(n) ==
    [i \in 1 .. (2 * n - 1) |->
        IF i % 2 = 1 THEN <<"_send_data_once", (i + 1) \div 2>>
        ELSE <<"sleep", 2 * (i \div 2)>>]

IsPrefix(s, t) == Len(s) <= Len(t) /\ s = SubSeq(t, 1, Len(s))

AllFailed == \A i \in DOMAIN results : results[i] = "False"

C3_EmptyPayloadRejected ==
    (api = "send_data" /\ Blank(data))
        => /\ cpc = "done"
           /\ ret = Ret("False")
           /\ calls = <<>>
           /\ socks = <<>>
           /\ sent = <<>>

C3_Witness == api = "send_data" /\ data = <<32, 32>> /\ cpc = "done"

\* The send cycle that returned last, while send_data is between cycles.
CycleReturned == api = "send_data" /\ cpc \in {"sleep", "done"} /\ results # <<>>

\* C4 as stated: a send cycle that has returned gave False exactly when its
\* connect or its payload write (sendall) failed, and True in every other
\* case.
C4_AsStated ==
    CycleReturned
        => LET r == results[Len(results)]
           IN  (r = "False") <=> (cyc.connect = "fail" \/ cyc.send = "fail")

\* C4, amended: a send cycle that has returned gave False exactly when its
\* connect failed, its payload could not be encoded as UTF-8 (no write is
\* then made), or its payload write failed, and True in every other case,
\* however the acknowledgment read ended.
C4_SendOnceResult ==
    CycleReturned
        => LET r == results[Len(results)]
               failed == \/ cyc.connect = "fail"
                         \/ cyc.encode = "fail"
                         \/ cyc.send = "fail"
           IN  /\ r \in {"True", "False"}
               /\ (r = "False") <=> failed
               /\ (cyc.recv # "none") => r = "True"

C4_Witness ==
    /\ api = "send_data" /\ cpc = "done"
    /\ cyc.recv = "undecodable"
    /\ results[Len(results)] = "True"

CloseCalls(i) == Cardinality({j \in DOMAIN calls : calls[j] = <<"close", i>>})

\* C5: a socket the client connected is held by the running cycle and not
\* closed yet, or its cycle (_send_data_once or send_data_with_response) has
\* returned and close was called on it exactly once; a socket whose connect
\* failed is never closed.
C5_ConnectionClosedOnce ==
    \A i \in DOMAIN socks :
        IF i = client_socket
        THEN socks[i] = "connected" /\ CloseCalls(i) = 0
        ELSE \/ socks[i] = "unconnected" /\ CloseCalls(i) = 0
             \/ socks[i] \in {"closed", "close_failed"} /\ CloseCalls(i) = 1

C5_Witness ==
    /\ api = "send_data" /\ cpc = "sleep"
    /\ cyc.send = "fail"
    /\ socks = <<"closed">>
    /\ calls[Len(calls)] = <<"close", 1>>

\* C6: a handler that has returned after a zero-byte read, every
\* acknowledgment write before it having succeeded, read k chunks and then
\* the empty one: it made exactly k+1 reads and k acknowledgment writes,
\* closed exactly once, after all of them, and no exception left it.
C6_ZeroByteReadEndsHandler ==
    \A h \in Direct :
        /\ hpc[h] \in {"called", "loop", "recv", "send"} => closes[h] = 0
        /\ (hpc[h] = "done" /\ lastread[h] = "empty" /\ ~sendfailed[h]
                /\ chunks[h] <= MaxReads)
              => /\ recvs[h] = chunks[h] + 1
                 /\ sends[h] = chunks[h]
                 /\ closes[h] = 1
                 /\ escaped[h] = "none"

C6_Witness ==
    /\ hpc[1] = "done" /\ lastread[1] = "empty" /\ ~sendfailed[1]
    /\ server_running
    /\ chunks[1] = 2 /\ recvs[1] = 3 /\ sends[1] = 2 /\ closes[1] = 1

\* C7: once a read of the handler has raised, the handler is at its close
\* or has returned: it reads and writes no more, the close is made exactly
\* once, and no exception leaves handle_client.
C7_ReadErrorClosesOnce ==
    \A h \in Direct :
        lastread[h] = "error"
            => /\ hpc[h] \in {"close", "done"}
               /\ hpc[h] = "close" => closes[h] = 0
               /\ hpc[h] = "done" => closes[h] = 1 /\ escaped[h] = "none"

C7_Witness ==
    /\ hpc[1] = "done" /\ lastread[1] = "error"
    /\ recvs[1] = 2 /\ sends[1] = 1 /\ closes[1] = 1

\* Every read so far returned decodable data, every acknowledgment write
\* raised, and server_running is still true.
SendErrorRun ==
    /\ server_running
    /\ lastread[1] \in {"none", "data"}
    /\ ~sendok[1]

\* C8: handle_client on a connection whose every read returns data and
\* whose every acknowledgment write fails, server_running staying true,
\* terminates having closed the connection exactly once.
C8_SendErrorTerminates ==
    <>((hpc[1] = "done" /\ closes[1] = 1) \/ ~SendErrorRun)

C10_CloseFailureContained ==
    \A h \in Direct :
        /\ closes[h] <= 1
        /\ lastclose[h] = "fail"
              => hpc[h] = "done" /\ closes[h] = 1 /\ escaped[h] = "none"

C10_Witness ==
    /\ hpc[1] = "done" /\ lastclose[1] = "fail"
    /\ lastread[1] = "empty" /\ chunks[1] = 1 /\ closes[1] = 1

\* C11: every acknowledgment a handler has written is the bytes of
\* "Server received: " followed by the bytes of the chunk it had just read,
\* and decodes to that prefix followed by the chunk's text; the handler
\* never makes more writes than it has read non-empty chunks.  The chunks
\* include "CONNECTION_TEST" and "GET_SERVER_INFO".
C11_AckIsPrefixAndMessage ==
    \A h \in Direct :
        /\ sends[h] <= chunks[h]
        /\ (hpc[h] = "loop" /\ sends[h] >= 1)
              => /\ acked[h] = Encode(AckPrefix).bytes \o read[h]
                 /\ Decode(acked[h]).text = AckPrefix \o Decode(read[h]).text

C11_Witness ==
    /\ hpc[1] = "loop" /\ sends[1] = 2 /\ chunks[1] = 2 /\ lastsend[1] = "ok"
    /\ read[1] = Encode(ConnectionTest).bytes
    /\ acked[1] = Encode(AckPrefix \o ConnectionTest).bytes

\* The client's read of the acknowledgment has returned bytes.
ResponseRead ==
    /\ api = "send_data_with_response"
    /\ cpc \in {"response_finally", "done"}
    /\ cyc.recv \in {"data", "undecodable"}

\* C12: when the server has read the whole non-empty payload M of
\* send_data_with_response in one read and the client's one read has
\* returned bytes, these bytes are those of "Server received: M" and the
\* call returns that text.
C12_RoundTripExact ==
    \A c \in Conns :
        (ResponseRead /\ data # <<>> /\ read[c] = Encode(data).bytes)
            => /\ received = Encode(AckPrefix \o data).bytes
               /\ cpc = "done" => ret = RetStr(AckPrefix \o data)

\* The acknowledgment of the message of the client of connection c.
OwnAck(c) == Encode(AckPrefix \o RawMessage(c)).bytes

\* C13: with the clients connected at the same time and the handlers
\* interleaved in any way, what a handler writes, what waits on a
\* connection and what its client has read is the acknowledgment of that
\* client's own message and nothing else; the acknowledgment of a write
\* that succeeded waits for the client that has not read yet.
C13_OwnAcknowledgmentOnly ==
    \A c \in Conns :
        /\ sends[c] >= 1 => acked[c] = OwnAck(c)
        /\ outbox[c] \in {<<>>, OwnAck(c)}
        /\ got[c] \in {<<>>, OwnAck(c)}
        /\ (rpc[c] = "sent" /\ lastsend[c] = "ok") => outbox[c] = OwnAck(c)

C13_Witness ==
    /\ got[1] = OwnAck(1) /\ got[2] = OwnAck(2)
    /\ hpc[1] = "recv" /\ hpc[2] = "recv"
    /\ rpc[1] = "got" /\ rpc[2] = "got"

\* C14: once a shutdown signal has been delivered, no step takes a
\* connection from the backlog and no step starts a handler.
C14_NoAcceptAfterShutdown ==
    [][signals >= 1
          => /\ Len(backlog') >= Len(backlog)
             /\ ~(mpc # "spawn" /\ mpc' = "spawn")
             /\ \A h \in Conns : hpc[h] = "idle" => hpc'[h] = "idle"]_vars

C14_Witness ==
    /\ signals = 1 /\ mpc = "done" /\ Len(backlog) = 1
    /\ \E h \in Conns : hpc[h] \notin {"idle", "done"}

\* C15: a handler that is active when a shutdown signal has been delivered
\* goes on to close its connection and return.
C15_ActiveHandlersFinish ==
    \A h \in Conns :
        [](signals >= 1 /\ hpc[h] \in {"called", "loop", "recv", "send", "close"}
              => <>(hpc[h] = "done" /\ closes[h] = 1))

\* C16: server_running is true exactly until the first shutdown signal is
\* delivered: true at the start, false after the signal handler has run,
\* never true again, and changed by no step of the accept loop, of a
\* handler or of a client.
C16_FlagWrittenBySignalOnly == server_running <=> signals = 0

C16_Witness ==
    /\ signals = 1 /\ ~server_running /\ mpc = "finally"
    /\ \E h \in Conns : hpc[h] = "close" /\ lastread[h] = "data"

\* C17: when start_server has ended, the listening socket has been closed
\* exactly once and no exception of that close has left start_server.
C17_ListenerClosedOnce ==
    mpc = "done" => server_closes = 1 /\ sescaped \notin ListenerCloseRaises

\* C18: after an accept call has raised, the main thread is in its finally
\* block or has ended: no step takes a connection from the backlog and no
\* step starts a handler.
C18_AcceptErrorEndsLoop ==
    [][accept_failed'
          => /\ mpc' \in {"finally", "done"}
             /\ Len(backlog') >= Len(backlog)
             /\ \A h \in Conns : hpc[h] = "idle" => hpc'[h] = "idle"]_vars

C18_Witness ==
    /\ accept_failed /\ signals = 0 /\ server_running
    /\ mpc = "done" /\ server_closes = 1 /\ Len(backlog) = 1

\* The calls of the given kind made so far.
CallsOf(op) == Cardinality({i \in DOMAIN calls : calls[i][1] = op})

\* C19: send_data_with_response makes one connection attempt, no send
\* cycle of send_data and no sleep; it returns the decoded text of the read
\* exactly when the connect succeeded, the payload was written and the read
\* returned non-empty decodable bytes, and None in every other case.
C19_ResponseOneCycle ==
    api = "send_data_with_response"
        => /\ CallsOf("connect") = 1
           /\ CallsOf("sleep") = 0
           /\ CallsOf("_send_data_once") = 0
           /\ cpc = "done"
                 => /\ ret.kind = "str"
                         <=> /\ cyc.connect = "ok"
                             /\ cyc.send = "ok"
                             /\ cyc.recv = "data"
                    /\ ret.kind = "str" => ret.val = Decode(received).text
                    /\ ret.kind # "str" => ret = Ret("None")

C19_Witness ==
    /\ api = "send_data_with_response" /\ cpc = "done"
    /\ received = <<195, 169, 104>>
    /\ ret = RetStr(<<233, 104>>)

\* C20: for an empty or whitespace-only payload no send operation makes a
\* connection attempt or any other call of the transport.
C20_BlankPayloadNoNetwork ==
    (api # "none" /\ Blank(data)) => calls = <<>> /\ socks = <<>> /\ sent = <<>>

\* C21: when a send cycle (_send_data_once) has returned, every socket the
\* client created, connected or not, has been closed.
C21_EveryCycleEndsClosed ==
    CycleReturned
        => \A i \in DOMAIN socks : socks[i] \in {"closed", "close_failed"}

\* C22: send_data returns True or False and send_data_with_response returns
\* a string or None, whatever connect, sendall, recv, decode and close did;
\* the value the finally block returns is the one that was set before the
\* close, however the close ended.
C22_NoExceptionEscapes ==
    [][/\ (cpc' = "done" /\ api' = "send_data")
             => ret'.kind \in {"True", "False"}
       /\ (cpc' = "done" /\ api' = "send_data_with_response")
             => ret'.kind \in {"str", "None"}
       /\ (cpc = "response_finally" /\ cpc' = "done") => ret' = pending
       /\ (cpc = "once_finally" /\ cpc' # cpc)
             => /\ pending.kind \in {"True", "False"}
                /\ results' = Append(results, pending.kind)]_vars

C22_Witness ==
    /\ api = "send_data_with_response" /\ cpc = "done"
    /\ cyc.close = "fail" /\ cyc.recv = "data"
    /\ ret = RetStr(<<104>>)

\* C23: the step that ends a handler closes that handler's own connection
\* and changes nothing of any other handler, of any other connection, of
\* the listening socket, of the accept loop or of the flag.
C23_HandlerEndIsLocal ==
    [][\A h \in Conns :
          (hpc[h] # "done" /\ hpc'[h] = "done")
              => /\ closes'[h] = closes[h] + 1
                 /\ sside'[h] = "closed"
                 /\ \A g \in Conns \ {h} :
                       /\ hpc'[g] = hpc[g]
                       /\ closes'[g] = closes[g]
                       /\ sside'[g] = sside[g]
                 /\ mpc' = mpc /\ lsock' = lsock /\ backlog' = backlog
                 /\ server_running' = server_running]_vars

C23_Witness ==
    /\ hpc[2] = "done" /\ lastread[2] = "error" /\ sside[2] = "closed"
    /\ hpc[1] = "recv" /\ sside[1] = "open" /\ closes[1] = 0
    /\ mpc = "accept" /\ server_running /\ lsock = "listening"

\* C24: a handler makes a read only when every chunk it has read so far
\* has had its acknowledgment write (made or failed), and each write is
\* the acknowledgment of the one chunk read since the write before: reads
\* and acknowledgments alternate, so the acknowledgments follow the order
\* of the chunks.
C24_AcksInArrivalOrder ==
    [][\A h \in Direct :
          /\ recvs'[h] # recvs[h] => sends[h] = chunks[h]
          /\ sends'[h] # sends[h]
                => /\ chunks[h] = sends[h] + 1
                   /\ acked'[h] = Encode(AckPrefix \o Decode(read[h]).text).bytes]_vars

C24_Witness ==
    /\ hpc[1] = "send" /\ chunks[1] = 3 /\ sends[1] = 2
    /\ sendok[1] /\ sendfailed[1]
    /\ read[1] = Encode(GetServerInfo).bytes

\* The test messages, system-information sends and sleeps of the run, in
\* the order made.
AppOps ==
    SelectSeq(steps, LAMBDA e : e[1] \in {"send_test_message", "send_system_info", "sleep"})

\* The send_data calls of the run.
AppSends == SelectSeq(steps, LAMBDA e : e[1] = "send_data")

\* Greeting, sleep 1, system information, sleep 1, completion.
AutomatedPlan ==
    <<<<"send_test_message", Greeting>>, <<"sleep", <<1>>>>,
      <<"send_system_info", <<>>>>, <<"sleep", <<1>>>>,
      <<"send_test_message", Completion>>>>

\* C25: what run_automated_mode has done so far is the beginning of:
\* greeting, sleep of 1 second, system information, sleep of 1 second,
\* completion message; when it has ended it has done all five steps and
\* returned, however the sends ended.
C25_AutomatedSequence ==
    mode = "automated"
        => /\ IsPrefix(AppOps, AutomatedPlan)
           /\ apc = "done"
                 => /\ AppOps = AutomatedPlan
                    /\ Len(AppSends) = 3
                    /\ aend = "returned"

C25_Witness ==
    /\ mode = "automated" /\ apc = "done" /\ aend = "returned"
    /\ steps[3] = <<"Exception", <<>>>>
    /\ steps[7] = <<"False", <<>>>>
    /\ AppOps = AutomatedPlan

\* What the loop of run_interactive_mode does for the answers ev[i..]:
\* nothing more from the first quit or interrupt on, one system-information
\* send for info, nothing for an empty line, one test message with the
\* trimmed text otherwise.
RECURSIVE InteractivePlan(_, _, _)
InteractivePlan(ev, i, acc) ==
    IF i > Len(ev) \/ ev[i].kind = "interrupt"
          \/ Lower(Strip(ev[i].text)) = QuitText
    THEN acc
    ELSE InteractivePlan(ev, i + 1,
            IF Lower(Strip(ev[i].text)) = InfoText
            THEN Append(acc, <<"send_system_info", <<>>>>)
            ELSE IF Strip(ev[i].text) = <<>> THEN acc
            ELSE Append(acc, <<"send_test_message", Strip(ev[i].text)>>))

\* The answer is a quit command or a Ctrl-C.
EndsLoop(ev) == ev.kind = "interrupt" \/ Lower(Strip(ev.text)) = QuitText

\* C26: the sends of run_interactive_mode are those of the answers read so
\* far, in their order: one send_system_info for info, nothing for an empty
\* line, one send_test_message with the trimmed text for any other text; no
\* answer is read after a quit or a KeyboardInterrupt, and the loop has
\* ended exactly when the last answer was one of them or a send was
\* interrupted.
C26_InteractiveCommands ==
    mode = "interactive"
        => /\ AppOps = InteractivePlan(consumed, 1, <<>>)
           /\ Len(AppSends) = Len(AppOps)
           /\ \A i \in 1 .. (Len(consumed) - 1) : ~EndsLoop(consumed[i])
           /\ apc = "done"
                 <=> /\ consumed # <<>>
                     /\ \/ EndsLoop(consumed[Len(consumed)])
                        \/ /\ steps # <<>>
                           /\ steps[Len(steps)] = <<"KeyboardInterrupt", <<>>>>
           /\ apc = "done" => aend \in {"quit", "interrupt"}

C26_Witness ==
    /\ mode = "interactive" /\ apc = "done" /\ aend = "quit"
    /\ consumed = <<[kind |-> "line", text |-> <<32, 104, 105, 32>>],
                    [kind |-> "line", text |-> <<81, 85, 73, 84>>]>>
    /\ AppOps = <<<<"send_test_message", <<104, 105>>>>>>

\* C27: a handler reads server_running at its loop check and nowhere else.
\* A handler that has just been called has made no read; the loop check
\* goes to the read when the flag is true and to the close, without a read,
\* when it is false; a read that returns data is followed by the
\* acknowledgment write whatever the flag is by then; and a handler in a
\* read on which nothing has arrived and whose peer has not closed does not
\* move, whatever the flag is.
C27_FlagReadAtLoopTop ==
    [][\A h \in Conns :
          /\ hpc[h] = "called" => recvs[h] = 0 /\ hpc'[h] \in {"called", "loop"}
          /\ (hpc[h] = "loop" /\ hpc'[h] # "loop")
                => /\ hpc'[h] = IF server_running THEN "recv" ELSE "close"
                   /\ recvs'[h] = recvs[h]
          /\ (hpc[h] = "recv" /\ hpc'[h] # "recv" /\ lastread'[h] = "data")
                => hpc'[h] = "send"
          /\ (hpc[h] = "send" /\ hpc'[h] # "send")
                => sends'[h] = sends[h] + 1 /\ hpc'[h] = "loop"
          /\ (hpc[h] = "recv" /\ inbox[h] = <<>> /\ cside[h] # "closed")
                => hpc'[h] = "recv" /\ recvs'[h] = recvs[h]]_vars

C27_Witness ==
    /\ signals = 1 /\ ~server_running
    /\ hpc[1] = "done" /\ recvs[1] = 0 /\ closes[1] = 1
    /\ hpc[2] = "recv" /\ inbox[2] = <<>> /\ cside[2] = "open"

\* C28: after a chunk that is not valid UTF-8 the handler is in its finally
\* block or has returned, with no exception in flight; it has written one
\* acknowledgment for every chunk before that one and none for it; it
\* closes the connection once and no exception leaves handle_client.
C28_DecodeFailureContained ==
    \A h \in Direct :
        lastread[h] = "undecodable"
            => /\ hpc[h] \in {"close", "done"}
               /\ hexc[h] = "none"
               /\ recvs[h] <= MaxReads => sends[h] = chunks[h] - 1
               /\ closes[h] = IF hpc[h] = "done" THEN 1 ELSE 0
               /\ escaped[h] = "none"

C28_Witness ==
    /\ hpc[1] = "done" /\ lastread[1] = "undecodable" /\ read[1] = <<195>>
    /\ chunks[1] = 2 /\ sends[1] = 1 /\ closes[1] = 1 /\ lastclose[1] = "ok"

\* The handlers that have been started and have not returned.
ActiveHandlers == Cardinality({h \in Conns : hpc[h] \notin {"idle", "done"}})

\* C29: MAX_CONNECTIONS bounds the connections that wait for an accept and
\* nothing else: at its loop check the main thread can always go on, however
\* many handlers are running.
C29_ListenerDoesNotWait ==
    /\ Len(backlog) <= MAX_CONNECTIONS
    /\ mpc = "loop" => ENABLED start_server_loop

C29_Witness ==
    /\ ActiveHandlers > MAX_CONNECTIONS
    /\ mpc = "accept" /\ server_running /\ signals = 0

\* C30: every connection accept has returned has a handler thread, except
\* the one the main thread holds between the accept and the start of its
\* thread.
C30_EveryAcceptedHasHandler ==
    \A c \in Conns :
        (sside[c] # "none" /\ ~(mpc = "spawn" /\ msock = c)) => hpc[c] # "idle"


\* The calls of kinds ks that send_data has made, in order.
CallsAmong(ks) == SelectSeq(calls, LAMBDA e : e[1] \in ks)

\* C31: during one send_data call the only connection that can be open is
\* the one the running cycle holds, and none is open while send_data sleeps,
\* is about to connect or has returned; no two attempts connect the same
\* socket; and every write, read and close of a socket follows that socket's
\* connect with nothing but its own writes and reads between, so the close
\* of attempt k precedes the sleep after it and the connect of attempt k+1.
C31_RetryLoopSequential ==
    api = "send_data"
        => /\ \A i \in DOMAIN socks : socks[i] = "connected" => i = client_socket
           /\ cpc \in {"sleep", "once_connect", "done"}
                 => \A i \in DOMAIN socks : socks[i] # "connected"
           /\ \A j, k \in DOMAIN calls :
                 (calls[j][1] = "connect" /\ calls[k][1] = "connect" /\ j # k)
                    => calls[j][2] # calls[k][2]
           /\ \A j \in DOMAIN calls :
                 calls[j][1] \in {"sendall", "recv", "close"}
                    => \E i \in 1 .. (j - 1) :
                          /\ calls[i] = <<"connect", calls[j][2]>>
                          /\ \A m \in (i + 1) .. (j - 1) :
                                /\ calls[m][1] \in {"sendall", "recv"}
                                /\ calls[m][2] = calls[j][2]

C31_Witness ==
    /\ api = "send_data" /\ cpc = "once_recv" /\ attempt = 2
    /\ socks = <<"closed", "connected">>
    /\ CallsAmong({"connect", "close", "sleep"})
          = <<<<"connect", 1>>, <<"close", 1>>, <<"sleep", 2>>, <<"connect", 2>>>>

\* RETRY_ATTEMPTS as a number of cycles: 0 when it is zero or negative.
MaxCycles == IF retry_attempts >= 1 THEN retry_attempts ELSE 0

\* RETRY_ATTEMPTS - 1, and 0 when there is no attempt.
MaxSleeps == IF retry_attempts >= 1 THEN retry_attempts - 1 ELSE 0

\* C32: a send_data call never makes more than RETRY_ATTEMPTS send cycles
\* nor more than RETRY_ATTEMPTS - 1 sleeps, and, its transport calls and
\* sleeps all ending, it eventually returns True or False.
C32_SendDataTerminates ==
    /\ [](api = "send_data"
            => /\ Len(CallsAmong({"_send_data_once"})) <= MaxCycles
               /\ Len(results) <= Len(CallsAmong({"_send_data_once"}))
               /\ Len(CallsAmong({"sleep"})) <= MaxSleeps)
    /\ (api = "send_data") ~> (cpc = "done" /\ ret.kind \in {"True", "False"})

C32_Witness ==
    /\ api = "send_data" /\ cpc = "done" /\ retry_attempts = MaxRetry
    /\ ret = Ret("True")
    /\ Len(results) = MaxRetry
    /\ Len(CallsAmong({"sleep"})) = MaxRetry - 1

\* C33: whatever a send_data call has written is, write by write, the UTF-8
\* encoding of the caller's string as given (not trimmed), the same for
\* every attempt, and no attempt writes it twice: there are no more writes
\* than cycles and no socket has two sendall calls.
C33_PayloadUnchanged ==
    api = "send_data"
        => /\ \A i \in DOMAIN sent : Encode(data).ok /\ sent[i] = Encode(data).bytes
           /\ Len(sent) = Len(CallsAmong({"sendall"}))
           /\ Len(sent) <= Len(CallsAmong({"_send_data_once"}))
           /\ \A j, k \in DOMAIN calls :
                 (calls[j][1] = "sendall" /\ calls[k][1] = "sendall" /\ j # k)
                    => calls[j][2] # calls[k][2]

C33_Witness ==
    /\ api = "send_data" /\ cpc = "done"
    /\ data = <<32, 233>>
    /\ sent = <<<<32, 195, 169>>, <<32, 195, 169>>>>
    /\ results = <<"False", "True">>

\* C34: send_data called with RETRY_ATTEMPTS <= 0 and a payload that is
\* not blank has returned False without a send cycle, a connection
\* attempt, a write or a sleep.
C34_NoAttemptsConfigured ==
    (api = "send_data" /\ retry_attempts <= 0 /\ ~Blank(data))
        => /\ cpc = "done"
           /\ ret = Ret("False")
           /\ attempt = 0
           /\ results = <<>>
           /\ calls = <<>>
           /\ socks = <<>>
           /\ sent = <<>>

C34_Witness ==
    /\ api = "send_data" /\ retry_attempts = -1 /\ data = <<104, 32>>
    /\ cpc = "done" /\ ret = Ret("False")

\* The operations made on socket i, in order.
OpsOn(i) ==
    LET on == SelectSeq(calls, LAMBDA e : e[1] \in {"connect", "sendall", "recv", "close"}
                                          /\ e[2] = i)
    IN  [j \in DOMAIN on |-> on[j][1]]

\* _send_data_once and then send_data_with_response have returned.
BothReturned ==
    /\ wire = "script"
    /\ api = "send_data_with_response" /\ cpc = "done"
    /\ Len(results) = 1 /\ Len(socks) = 2

\* The acknowledgment read was made and failed, was empty or undecodable.
AckReadUnusable == cyc.recv \in {"timeout", "error", "empty", "undecodable"}

\* C35: on a transport that ends connect, sendall, recv and close the same
\* way for both, _send_data_once and send_data_with_response make the same
\* operations on their sockets in the same order; a string from
\* send_data_with_response goes with True from _send_data_once; when the
\* acknowledgment read is unusable the results are True and None; in every
\* other case they are True and a string, or False and None.
C35_OnceAndResponseAgree ==
    BothReturned
        => /\ OpsOn(1) = OpsOn(2)
           /\ Len(sent) \in {0, 2}
           /\ sent # <<>> => sent[1] = sent[2]
           /\ ret.kind = "str" => results[1] = "True"
           /\ IF AckReadUnusable
              THEN results[1] = "True" /\ ret = Ret("None")
              ELSE \/ results[1] = "True" /\ ret = RetStr(Decode(script.recv.bytes).text)
                   \/ results[1] = "False" /\ ret = Ret("None")

C35_Witness ==
    /\ BothReturned
    /\ script.recv = [exc |-> "socket.timeout", bytes |-> <<>>]
    /\ script.close = "socket.error"
    /\ OpsOn(2) = <<"connect", "sendall", "recv", "close">>
    /\ results = <<"True">> /\ ret = Ret("None")

\* The positions in the client's log of the operations on socket i.
OpsAt(i) ==
    {j \in DOMAIN calls : calls[j][1] \in {"connect", "sendall", "recv", "close"}
                           /\ calls[j][2] = i}

\* C36: in the client's log the close of a socket is the last operation
\* on that socket, and a handler that has called close on its connection
\* makes no further read, write or close on it and has returned.
C36_CloseIsLast ==
    /\ [](\A j \in DOMAIN calls :
             calls[j][1] = "close" => \A k \in OpsAt(calls[j][2]) : k <= j)
    /\ [](\A h \in Conns : closes[h] > 0 => hpc[h] = "done")
    /\ [][\A h \in Conns :
             closes[h] > 0
                => /\ recvs'[h] = recvs[h]
                   /\ sends'[h] = sends[h]
                   /\ closes'[h] = closes[h]
                   /\ sside[h] = "closed" => /\ outbox'[h] = outbox[h]
                                             /\ Len(inbox'[h]) >= Len(inbox[h])]_vars

C36_Witness ==
    /\ wire = "server"
    /\ api = "send_data" /\ cpc = "done" /\ socks = <<"closed">>
    /\ calls[Len(calls)] = <<"close", 1>>
    /\ hpc[1] = "done" /\ closes[1] = 1 /\ recvs[1] = 2 /\ sends[1] = 1
    /\ sside[1] = "closed" /\ cside[1] = "closed"

\* Standard input is at its end while the loop of run_interactive_mode runs.
AtEof ==
    /\ mode = "interactive" /\ apc = "input"
    /\ stdin # <<>> /\ Head(stdin).kind = "eof"

\* C37: run_interactive_mode has ended only after a quit answer or a
\* KeyboardInterrupt (at the prompt or during a send); an input() that
\* raises any other exception leaves the loop running with nothing sent;
\* and once standard input is at its end the loop is never left and is
\* never held up: its next iteration can always be made.
C37_InteractiveEndsOnQuitOrInterrupt ==
    /\ [](mode = "interactive" /\ apc = "done"
            => /\ aend \in {"quit", "interrupt"}
               /\ consumed # <<>>
               /\ LET last == consumed[Len(consumed)]
                  IN  \/ last.kind = "interrupt"
                      \/ last.kind = "line" /\ Lower(Strip(last.text)) = QuitText
                      \/ /\ last.kind = "line" /\ steps # <<>>
                         /\ steps[Len(steps)] = <<"KeyboardInterrupt", <<>>>>)
    /\ [][(mode = "interactive" /\ apc = "input" /\ stdin # <<>>
             /\ Head(stdin).kind \in {"error", "eof"})
              => apc' = "input" /\ aend' = "none" /\ steps' = steps]_vars
    /\ [](AtEof => ENABLED run_interactive_mode_input)
    /\ [](AtEof => [](apc = "input" /\ aend = "none"))

C37_Witness ==
    /\ AtEof
    /\ consumed = <<[kind |-> "error", text |-> <<>>], [kind |-> "eof", text |-> <<>>]>>
    /\ stdin = <<[kind |-> "eof", text |-> <<>>]>>
    /\ steps = <<>> /\ aend = "none"

=============================================================================
